---- MODULE Spec2Model ----
(***************************************************************************)
(* A model of the catch daemon of yeet: the caller authorizer and the      *)
(* registry's HTTP gate, the event bus, the service store with its         *)
(* lifecycle commands, and the manifest writes of the container registry.  *)
(* Each part has its own specification over the shared variables; the      *)
(* variables of the other parts stay at their initial values.              *)
(***************************************************************************)
EXTENDS Integers, Sequences, FiniteSets, TLC

VARIABLES
    lastCall,   \* the last connection or request the authorizing front ends handled
    els,        \* Server.eventListeners.s: the handles of the registered listeners
    mu,         \* Server.eventListeners.mu: the publisher holding it, NoHolder when free
    pubs,       \* each publishing goroutine's position inside PublishEvent
    lis,        \* each listener goroutine: position, filter and events received
    published,  \* number of PublishEvent calls made so far
    svcs,       \* db.Data.Services: per service name, the entry's generation fields
    unit,       \* the supervisor's view of each service's unit
    disk,       \* the directories present under ServicesRoot/<service>
    cmdLast,    \* the last session command: its error, runner calls and events
    images,     \* db.Data.Images: per repo name, whether it has an entry and its refs
    manifestFiles, \* the files under manifests/sha256
    putLast,    \* the last manifest PUT: request, response status, installer runs
    procs,      \* goroutines serving sessions and the registry, step by step
    up,         \* one install reading its payload, with its watchdog goroutine
    ws,         \* one tty run-command over a WebSocket, with its goroutines
    sftp,       \* the env artifact and data files of a service, and the last SFTP
                \* request or env command of its session
    ssh,        \* one SSH session: its user string and how its handler ended
    agg,        \* the web client's status aggregation: component states and result
    srv,        \* Server.ctx, the goroutines of its WaitGroup and the Shutdown call
    cf,         \* the compose-file artifact of one service, per generation, and
                \* what the last manifest PUT handed to the installer
    dk,         \* the repos pushed with a deploy tag and the container engine
                \* commands of the compose runner's last Up
    made,       \* the service names NewFileInstaller has been called for
    rz          \* one WebSocket message met by the read handler of a tty
                \* run-command, and what became of it

authVars == <<lastCall>>
busVars == <<els, mu, pubs, lis, published>>
storeVars == <<svcs, unit, disk, cmdLast>>
regVars == <<images, manifestFiles, putLast>>
stepVars == <<procs>>
lateVars == <<srv, cf, dk, made, rz>>
sessVars == <<up, ws, sftp, ssh, agg, lateVars>>
vars == <<lastCall, els, mu, pubs, lis, published, svcs, unit, disk, cmdLast,
          images, manifestFiles, putLast, procs, up, ws, sftp, ssh, agg, srv, cf,
          dk, made, rz>>

(***************************************************************************)
(* Authorizer (catch.go) and the registry's HTTP gate (registry.go)        *)
(***************************************************************************)

\* ACL tags a node can carry, and the user-ids that own untagged nodes.
Tags == {"tag:a", "tag:b"}
UserIDs == {"u1", "u2"}
Nodes == [tags : SUBSET Tags, user : UserIDs]

Methods == {"GET", "HEAD", "OPTIONS", "POST", "PUT", "PATCH", "DELETE"}
\* r.RemoteAddr: not an ip:port, a loopback address, or a tailnet peer.
AddrKinds == {"unparsable", "loopback", "peer"}

\* A slip in overlaps: every tag of a must be in b.
overlapsAll(a, b) == \A x \in a : x \in b

overlaps(a, b) == \E x \in a : x \in b

\* tailcfg.Node.IsTagged / ipnstate.PeerStatus.IsTagged: the node has tags.
IsTagged(n) == n.tags # {}

\* A slip in verifyCaller: a tagged peer is let in by an untagged node.
verifyCallerTaggedPeerFirst(st, who, statusErr, whoisErr) ==
    IF statusErr THEN "status_error"
    ELSE IF whoisErr THEN "whois_error"
    ELSE IF IsTagged(who)
         THEN IF ~IsTagged(st) \/ overlaps(who.tags, st.tags)
              THEN "ok" ELSE "unauthorized"
    ELSE IF IsTagged(st) THEN "ok"
    ELSE IF st.user = who.user THEN "ok"
    ELSE "unauthorized"

\* st: the local node (StatusWithoutPeers), who: the peer (WhoIs); either
\* lookup can fail, and then the error is not errUnauthorized.
verifyCaller(st, who, statusErr, whoisErr) ==
    IF statusErr THEN "status_error"
    ELSE IF whoisErr THEN "whois_error"
    ELSE IF IsTagged(who)
         THEN IF IsTagged(st) /\ overlaps(who.tags, st.tags)
              THEN "ok" ELSE "unauthorized"
    ELSE IF IsTagged(st) THEN "ok"
    ELSE IF st.user = who.user THEN "ok"
    ELSE "unauthorized"

StatusPassed == 0
StatusUnauthorized == 401
StatusMethodNotAllowed == 405

\* A slip in ServeHTTP: the loopback check names the write methods and
\* forgets DELETE.
ServeHTTPGateForgetsDelete(addr, method, auth) ==
    IF addr = "unparsable" THEN StatusMethodNotAllowed
    ELSE IF addr = "loopback"
         THEN IF method \in {"POST", "PUT", "PATCH"}
              THEN StatusMethodNotAllowed ELSE StatusPassed
    ELSE IF auth # "ok" THEN StatusUnauthorized
    ELSE StatusPassed

\* The status ServeHTTP answers with before the inner registry handler runs,
\* StatusPassed when it hands the request on. auth is verifyCaller's result.
ServeHTTPGate(addr, method, auth) ==
    IF addr = "unparsable" THEN StatusMethodNotAllowed
    ELSE IF addr = "loopback"
         THEN IF method \notin {"GET", "HEAD", "OPTIONS"}
              THEN StatusMethodNotAllowed ELSE StatusPassed
    ELSE IF auth # "ok" THEN StatusUnauthorized
    ELSE StatusPassed

\* The two lookups of verifyCaller: both succeed, or one of them fails.
Lookups == {<<FALSE, FALSE>>, <<TRUE, FALSE>>, <<FALSE, TRUE>>}

NoCall == [via |-> "none"]

InitAuth == lastCall = NoCall

AuthFrame == UNCHANGED <<busVars, storeVars, regVars, stepVars, sessVars>>

\* The SSH server's NoClientAuthHandler: one verifyCaller per connection; the
\* connection is accepted when it returns no error.
NoClientAuthHandler ==
    \E st \in Nodes, who \in Nodes, lk \in Lookups :
        /\ lastCall' = [via |-> "ssh", st |-> st, who |-> who, lookups |-> lk,
                        result |-> verifyCaller(st, who, lk[1], lk[2])]
        /\ AuthFrame

\* containerRegistry.ServeHTTP: verifyCaller runs for non-loopback callers
\* only; inner records whether cr.r.ServeHTTP (the registry proper) was called.
ServeHTTP ==
    /\ AuthFrame
    /\ \E method \in Methods :
        \/ \E addr \in {"unparsable", "loopback"} :
              LET status == ServeHTTPGate(addr, method, "not_called")
              IN  lastCall' = [via |-> "http", addr |-> addr, method |-> method,
                               status |-> status, inner |-> (status = StatusPassed)]
        \/ \E st \in Nodes, who \in Nodes, lk \in Lookups :
              LET auth == verifyCaller(st, who, lk[1], lk[2])
                  status == ServeHTTPGate("peer", method, auth)
              IN  lastCall' = [via |-> "http", addr |-> "peer", method |-> method,
                               st |-> st, who |-> who, lookups |-> lk,
                               result |-> auth,
                               status |-> status, inner |-> (status = StatusPassed)]

NextAuth == NoClientAuthHandler \/ ServeHTTP

(***************************************************************************)
(* Event bus (catch.go): PublishEvent, AddEventListener,                   *)
(* RemoveEventListener, and the listener loops of handleEvents and of the  *)
(* events command.  Every listener channel is unbuffered (make(chan        *)
(* Event)), so a send completes only in a rendezvous with a receive.       *)
(***************************************************************************)

\* PublishEvent calls in one behaviour.
MaxEvents == 2

\* Listener goroutines (handleEvents requests, events commands) and goroutines
\* that publish (the heartbeat, a session running remove).
Listeners == {1, 2}
Publishers == {1, 2}
NoHolder == 0

\* Services events are published for; "sys" carries the heartbeat.
EventServices == {"sys", "app"}
\* handleEvents and `events --all` accept everything; `events` only its service.
Filters == {"*"} \cup EventServices

\* A filter that is never consulted.
AcceptsAll(filter, ev) == TRUE

\* el.filter == nil || el.filter(event)
Accepts(filter, ev) == filter = "*" \/ filter = ev.svc

\* An event carries its service, the number of its PublishEvent call and, to
\* tell overlapping calls apart, the calls in progress when it was made.
IdlePublisher == [pc |-> "idle", ev |-> [svc |-> "sys", seq |-> 0, pend |-> {}],
                  todo |-> {}, to |-> 0]

InitBus ==
    /\ els = {}
    /\ mu = NoHolder
    /\ pubs = [p \in Publishers |-> IdlePublisher]
    /\ lis = [l \in Listeners |-> [pc |-> "none", filter |-> "*", got |-> <<>>]]
    /\ published = 0

BusFrame == UNCHANGED <<authVars, storeVars, regVars, stepVars, sessVars>>

\* AddEventListener, then the goroutine enters its select loop.
AddEventListener(l) ==
    /\ lis[l].pc = "none"
    /\ mu = NoHolder
    /\ \E f \in Filters :
         lis' = [lis EXCEPT ![l] = [pc |-> "recv", filter |-> f, got |-> <<>>]]
    /\ els' = els \cup {l}
    /\ UNCHANGED <<mu, pubs, published>>
    /\ BusFrame

\* A goroutine calls PublishEvent: the event is stamped, then it waits for the mutex.
PublishCall(p) ==
    /\ pubs[p].pc = "idle"
    /\ published < MaxEvents
    /\ \E s \in EventServices :
         pubs' = [pubs EXCEPT ![p] = [pc |-> "lock",
                                      ev |-> [svc |-> s, seq |-> published + 1,
                                              pend |-> {pubs[q].ev.seq : q \in
                                                  {r \in Publishers : pubs[r].pc # "idle"}}],
                                      todo |-> {}, to |-> 0]]
    /\ published' = published + 1
    /\ UNCHANGED <<els, mu, lis>>
    /\ BusFrame

\* PublishEvent, were the range to start without the mutex being free.
PublishLockNoExclusion(p) ==
    /\ pubs[p].pc = "lock"
    /\ mu' = p
    /\ pubs' = [pubs EXCEPT ![p].pc = "range", ![p].todo = els]
    /\ UNCHANGED <<els, lis, published>>
    /\ BusFrame

\* els.mu.Lock(): the range over els.s starts.
PublishLock(p) ==
    /\ pubs[p].pc = "lock"
    /\ mu = NoHolder
    /\ mu' = p
    /\ pubs' = [pubs EXCEPT ![p].pc = "range", ![p].todo = els]
    /\ UNCHANGED <<els, lis, published>>
    /\ BusFrame

\* One iteration of the range, in map order: a listener whose filter rejects
\* the event is skipped, for any other the publisher starts el.ch <- event.
PublishNext(p) ==
    /\ pubs[p].pc = "range"
    /\ \E l \in pubs[p].todo :
         pubs' = [pubs EXCEPT ![p].todo = @ \ {l},
                              ![p].pc = IF Accepts(lis[l].filter, pubs[p].ev)
                                        THEN "send" ELSE "range",
                              ![p].to = IF Accepts(lis[l].filter, pubs[p].ev)
                                        THEN l ELSE 0]
    /\ UNCHANGED <<els, mu, lis, published>>
    /\ BusFrame

\* The send el.ch <- event meets the listener's receive in its select.
Deliver(p) ==
    /\ pubs[p].pc = "send"
    /\ LET l == pubs[p].to
       IN  /\ lis[l].pc = "recv"
           /\ lis' = [lis EXCEPT ![l].pc = "busy",
                                 ![l].got = Append(@, pubs[p].ev)]
    /\ pubs' = [pubs EXCEPT ![p].pc = "range", ![p].to = 0]
    /\ UNCHANGED <<els, mu, published>>
    /\ BusFrame

\* The range is over: the deferred els.mu.Unlock() runs and PublishEvent returns.
PublishReturn(p) ==
    /\ pubs[p].pc = "range"
    /\ pubs[p].todo = {}
    /\ mu' = NoHolder
    /\ pubs' = [pubs EXCEPT ![p].pc = "idle"]
    /\ UNCHANGED <<els, lis, published>>
    /\ BusFrame

\* The listener has written the event out (conn.WriteJSON, printf) and is back
\* in its select.
ListenerReady(l) ==
    /\ lis[l].pc = "busy"
    /\ lis' = [lis EXCEPT ![l].pc = "recv"]
    /\ UNCHANGED <<els, mu, pubs, published>>
    /\ BusFrame

\* The select takes the Done case (request or session context cancelled): the
\* loop returns and the deferred RemoveEventListener is next.
ListenerCancel(l) ==
    /\ lis[l].pc = "recv"
    /\ lis' = [lis EXCEPT ![l].pc = "removing"]
    /\ UNCHANGED <<els, mu, pubs, published>>
    /\ BusFrame

\* RemoveEventListener: needs the mutex.
RemoveEventListener(l) ==
    /\ lis[l].pc = "removing"
    /\ mu = NoHolder
    /\ els' = els \ {l}
    /\ lis' = [lis EXCEPT ![l].pc = "done"]
    /\ UNCHANGED <<mu, pubs, published>>
    /\ BusFrame

NextBus ==
    \/ \E l \in Listeners : AddEventListener(l)
    \/ \E p \in Publishers : PublishCall(p)
    \/ \E p \in Publishers : PublishLock(p)
    \/ \E p \in Publishers : PublishNext(p)
    \/ \E p \in Publishers : Deliver(p)
    \/ \E p \in Publishers : PublishReturn(p)
    \/ \E l \in Listeners : ListenerReady(l)
    \/ \E l \in Listeners : ListenerCancel(l)
    \/ \E l \in Listeners : RemoveEventListener(l)

(***************************************************************************)
(* Service store and session commands (tty.go, catch.go).  A command runs  *)
(* as one step.  The installer and the supervisor runners are the daemon's *)
(* own code outside these sources; they follow the design document.        *)
(***************************************************************************)

\* The retention window N.
maxGenerations == 10
\* Commits stop once latest_generation reaches MaxGen.
MaxGen == 12
\* `edit --config` writes generation fields from -1..EditMax.
EditMax == 2

SystemService == "sys"
CatchService == "catch"
\* The service name of a session (serviceAndUser) and the store's keys.
ServiceNames == {"app", SystemService, CatchService}
\* Sessions that upload or edit work on the one deployable service.
Deployable == {"app"}

NoService == [exists |-> FALSE, gen |-> 0, latest |-> 0]
\* bin/, env/ and run/ are the artifact directories; data/ is kept by remove.
ArtifactDirs == {"bin", "env", "run"}
AllDirs == ArtifactDirs \cup {"data"}

NoCalls == <<>>
NoEvents == <<>>
Call(op, g) == [op |-> op, gen |-> g]
Event(type, sn) == [type |-> type, svc |-> sn]
\* err is "none" when the command returns nil; answer is the operator's reply
\* to a confirmation prompt, "" when none was asked.
Cmd(cmd, sn, err, calls, events) ==
    [cmd |-> cmd, sn |-> sn, err |-> err, calls |-> calls, events |-> events,
     answer |-> ""]

InitStore ==
    /\ svcs = [n \in ServiceNames |-> NoService]
    /\ unit = [n \in ServiceNames |-> "absent"]
    /\ disk = [n \in ServiceNames |-> {}]
    /\ cmdLast = Cmd("none", "app", "none", NoCalls, NoEvents)

StoreFrame == UNCHANGED <<authVars, busVars, regVars, stepVars, sessVars>>

\* Server.serviceView / serviceType: errServiceNotFound for a missing entry.
serviceFound(sn) == svcs[sn].exists

\* IsServiceRunning, from the runner's status of the unit.
IsServiceRunning(sn) == unit[sn] = "running"

\* A slip in the rollback bound: the window is taken one generation short.
rollbackCheckShortWindow(s) ==
    IF s.gen = 0 THEN "no_generation"
    ELSE IF s.gen - 1 < s.latest - maxGenerations + 1 THEN "too_old"
    ELSE IF s.gen - 1 = 0 THEN "oldest"
    ELSE "none"

\* The function rollbackCmdFunc hands to MutateService: the error it returns,
\* "none" when it sets s.Generation = s.Generation - 1.
rollbackCheck(s) ==
    IF s.gen = 0 THEN "no_generation"
    ELSE IF s.gen - 1 < s.latest - maxGenerations THEN "too_old"
    ELSE IF s.gen - 1 = 0 THEN "oldest"
    ELSE "none"

\* NewInstaller followed by InstallGen(g): the runner is reconciled against
\* generation g and (re)started, unless one of the two fails.
Reconciles == {"ok", "installer_failed", "install_failed"}
ReconcileCalls(rc, g) == IF rc = "installer_failed" THEN NoCalls ELSE <<Call("InstallGen", g)>>
ReconcileErr(rc) == IF rc = "ok" THEN "none" ELSE rc

\* rollback, were the installer handed the generation read before the
\* decrement.
rollbackCmdFuncInstallsOldGen(sn) ==
    /\ \E rc \in Reconciles :
         LET s == svcs[sn]
             chk == rollbackCheck(s)
         IN  IF chk # "none"
             THEN /\ cmdLast' = Cmd("rollback", sn, chk, NoCalls, NoEvents)
                  /\ UNCHANGED <<svcs, unit>>
             ELSE /\ svcs' = [svcs EXCEPT ![sn].gen = s.gen - 1]
                  /\ unit' = IF rc = "ok" THEN [unit EXCEPT ![sn] = "running"] ELSE unit
                  /\ cmdLast' = Cmd("rollback", sn, ReconcileErr(rc),
                                    ReconcileCalls(rc, s.gen), NoEvents)
    /\ UNCHANGED disk
    /\ StoreFrame

\* rollback: MutateService aborts without a change when the function errs (a
\* missing service is seen as the zero Service); the reconcile comes after the
\* store has been written.
rollbackCmdFunc(sn) ==
    /\ \E rc \in Reconciles :
         LET s == svcs[sn]
             chk == rollbackCheck(s)
         IN  IF chk # "none"
             THEN /\ cmdLast' = Cmd("rollback", sn, chk, NoCalls, NoEvents)
                  /\ UNCHANGED <<svcs, unit>>
             ELSE /\ svcs' = [svcs EXCEPT ![sn].gen = s.gen - 1]
                  /\ unit' = IF rc = "ok" THEN [unit EXCEPT ![sn] = "running"] ELSE unit
                  /\ cmdLast' = Cmd("rollback", sn, ReconcileErr(rc),
                                    ReconcileCalls(rc, s.gen - 1), NoEvents)
    /\ UNCHANGED disk
    /\ StoreFrame

\* edit --config: the edited JSON replaces the whole entry (*s = s2), whatever
\* its generation fields say, and InstallGen(s2.Generation) follows.
editConfigCmdFunc(sn) ==
    /\ \E g2 \in -1..EditMax, l2 \in -1..EditMax, rc \in Reconciles,
          editor \in {"saved", "no_pty", "bad_json"} :
         IF ~serviceFound(sn)
         THEN /\ cmdLast' = Cmd("edit-config", sn, "not_found", NoCalls, NoEvents)
              /\ UNCHANGED <<svcs, unit>>
         ELSE IF editor # "saved"
         THEN /\ cmdLast' = Cmd("edit-config", sn, editor, NoCalls, NoEvents)
              /\ UNCHANGED <<svcs, unit>>
         ELSE IF g2 = svcs[sn].gen /\ l2 = svcs[sn].latest
         THEN \* fileutil.Identical: "No changes detected"
              /\ cmdLast' = Cmd("edit-config", sn, "none", NoCalls, NoEvents)
              /\ UNCHANGED <<svcs, unit>>
         ELSE /\ svcs' = [svcs EXCEPT ![sn] = [exists |-> TRUE, gen |-> g2, latest |-> l2]]
              /\ unit' = IF rc = "ok" THEN [unit EXCEPT ![sn] = "running"] ELSE unit
              /\ cmdLast' = Cmd("edit-config", sn, ReconcileErr(rc),
                                ReconcileCalls(rc, g2), NoEvents)
    /\ UNCHANGED disk
    /\ StoreFrame

\* The installer's promotion of a new generation: latest_generation + 1
\* becomes both latest_generation and generation.
Promote(s) == [exists |-> TRUE, gen |-> s.latest + 1, latest |-> s.latest + 1]

\* The installer's stage-only write: the entry is upserted, the generation
\* fields stay.
Stage(s) == [s EXCEPT !.exists = TRUE]

\* run, stage and stage commit: refused for the system service, otherwise an
\* install through the FileInstaller, which leaves the store as it was when it
\* fails.
installCmdFunc(sn, mode) ==
    /\ \E ok \in BOOLEAN :
         IF sn = SystemService
         THEN /\ cmdLast' = Cmd(mode, sn, "reserved", NoCalls, NoEvents)
              /\ UNCHANGED <<svcs, unit, disk>>
         ELSE /\ disk' = [disk EXCEPT ![sn] = AllDirs]
              /\ IF ~ok
                 THEN /\ cmdLast' = Cmd(mode, sn, "install_failed", NoCalls, NoEvents)
                      /\ UNCHANGED <<svcs, unit>>
                 ELSE IF mode = "stage"
                 THEN /\ svcs' = [svcs EXCEPT ![sn] = Stage(@)]
                      /\ cmdLast' = Cmd(mode, sn, "none", NoCalls,
                                        <<Event("ServiceConfigStaged", sn)>>)
                      /\ UNCHANGED unit
                 ELSE /\ svcs[sn].latest < MaxGen
                      /\ svcs' = [svcs EXCEPT ![sn] = Promote(@)]
                      /\ unit' = [unit EXCEPT ![sn] = "running"]
                      /\ cmdLast' = Cmd(mode, sn, "none",
                                        <<Call("Install", svcs[sn].latest + 1)>>,
                                        <<Event(IF svcs[sn].latest = 0 /\ ~svcs[sn].exists
                                                THEN "ServiceCreated"
                                                ELSE "ServiceConfigChanged", sn)>>)
    /\ StoreFrame

\* start and stop, were only the system service refused.
startStopCmdFuncSysOnly(sn, cmd) ==
    /\ \E ok \in BOOLEAN :
         IF sn = SystemService
         THEN /\ cmdLast' = Cmd(cmd, sn, "reserved", NoCalls, NoEvents)
              /\ UNCHANGED unit
         ELSE IF ~serviceFound(sn)
         THEN /\ cmdLast' = Cmd(cmd, sn, "not_found", NoCalls, NoEvents)
              /\ UNCHANGED unit
         ELSE IF unit[sn] = "absent" \/ ~ok
         THEN /\ cmdLast' = Cmd(cmd, sn, "runner_failed", <<Call(cmd, 0)>>, NoEvents)
              /\ UNCHANGED unit
         ELSE /\ unit' = [unit EXCEPT ![sn] = IF cmd = "start" THEN "running" ELSE "stopped"]
              /\ cmdLast' = Cmd(cmd, sn, "none", <<Call(cmd, 0)>>, NoEvents)
    /\ UNCHANGED <<svcs, disk>>
    /\ StoreFrame

\* start and stop: refused for sys and catch, then the runner is looked up and
\* called; a unit the supervisor does not know gives ErrNotInstalled.
startStopCmdFunc(sn, cmd) ==
    /\ \E ok \in BOOLEAN :
         IF sn \in {SystemService, CatchService}
         THEN /\ cmdLast' = Cmd(cmd, sn, "reserved", NoCalls, NoEvents)
              /\ UNCHANGED unit
         ELSE IF ~serviceFound(sn)
         THEN /\ cmdLast' = Cmd(cmd, sn, "not_found", NoCalls, NoEvents)
              /\ UNCHANGED unit
         ELSE IF unit[sn] = "absent" \/ ~ok
         THEN /\ cmdLast' = Cmd(cmd, sn, "runner_failed", <<Call(cmd, 0)>>, NoEvents)
              /\ UNCHANGED unit
         ELSE /\ unit' = [unit EXCEPT ![sn] = IF cmd = "start" THEN "running" ELSE "stopped"]
              /\ cmdLast' = Cmd(cmd, sn, "none", <<Call(cmd, 0)>>, NoEvents)
    /\ UNCHANGED <<svcs, disk>>
    /\ StoreFrame

\* enable and disable: refused for sys and catch, then the runner is looked up;
\* a runner that is no ServiceEnabler (docker compose) gives an error, a
\* systemd runner has Enable() or Disable() called.
enableDisableCmdFunc(sn, cmd) ==
    /\ \E enabler \in BOOLEAN, ok \in BOOLEAN :
         cmdLast' =
           IF sn \in {SystemService, CatchService}
           THEN Cmd(cmd, sn, "reserved", NoCalls, NoEvents)
           ELSE IF ~serviceFound(sn)
           THEN Cmd(cmd, sn, "not_found", NoCalls, NoEvents)
           ELSE IF ~enabler
           THEN Cmd(cmd, sn, "unsupported", NoCalls, NoEvents)
           ELSE Cmd(cmd, sn, IF ok THEN "none" ELSE "runner_failed",
                    <<Call(cmd, 0)>>, NoEvents)
    /\ UNCHANGED <<svcs, unit, disk>>
    /\ StoreFrame

\* runner.Remove(): Stop, then Uninstall.  The result is the error and the
\* unit's state afterwards.
RunnerOutcomes == {"ok", "stop_failed", "uninstall_failed"}
runnerRemove(u, outcome) ==
    IF u = "absent" THEN [err |-> "ErrNotInstalled", unit |-> u]
    ELSE IF outcome = "stop_failed" THEN [err |-> "failed", unit |-> u]
    ELSE IF outcome = "uninstall_failed" THEN [err |-> "failed", unit |-> "stopped"]
    ELSE [err |-> "none", unit |-> "absent"]

\* Server.RemoveService with the unit in state u: the error it returns, the
\* directories it leaves and whether it deleted the entry and published.
\* A failed status query is logged only; dbOk is MutateData's success.
RemoveService(sn, u, statusOk, dbOk) ==
    IF statusOk /\ u = "running"
    THEN [err |-> "not_stopped", dirs |-> disk[sn], deleted |-> FALSE]
    ELSE IF ~dbOk
    THEN [err |-> "db_failed", dirs |-> disk[sn] \cap {"data"}, deleted |-> FALSE]
    ELSE [err |-> "none", dirs |-> disk[sn] \cap {"data"}, deleted |-> TRUE]

\* remove: refused for sys and catch; the runner is looked up, the operator
\* confirms, runner.Remove() runs (ErrNotInstalled is only a warning), and
\* RemoveService follows.
removeCmdFunc(sn) ==
    /\ \E confirm \in {"y", "n", "read_error"}, outcome \in RunnerOutcomes,
          statusOk \in BOOLEAN, dbOk \in BOOLEAN :
         IF sn \in {SystemService, CatchService}
         THEN /\ cmdLast' = Cmd("remove", sn, "reserved", NoCalls, NoEvents)
              /\ UNCHANGED <<svcs, unit, disk>>
         ELSE IF ~serviceFound(sn)
         THEN /\ cmdLast' = Cmd("remove", sn, "not_found", NoCalls, NoEvents)
              /\ UNCHANGED <<svcs, unit, disk>>
         ELSE IF confirm # "y"
         THEN /\ cmdLast' = [Cmd("remove", sn,
                                 IF confirm = "n" THEN "none" ELSE "confirm_failed",
                                 NoCalls, NoEvents) EXCEPT !.answer = confirm]
              /\ UNCHANGED <<svcs, unit, disk>>
         ELSE LET r == runnerRemove(unit[sn], outcome)
                  rs == RemoveService(sn, r.unit, statusOk, dbOk)
              IN  /\ unit' = [unit EXCEPT ![sn] = r.unit]
                  /\ IF r.err = "failed"
                     THEN /\ cmdLast' = [Cmd("remove", sn, "runner_failed",
                                             <<Call("Remove", 0)>>, NoEvents)
                                         EXCEPT !.answer = confirm]
                          /\ UNCHANGED <<svcs, disk>>
                     ELSE /\ disk' = [disk EXCEPT ![sn] = rs.dirs]
                          /\ svcs' = IF rs.deleted
                                     THEN [svcs EXCEPT ![sn] = NoService] ELSE svcs
                          /\ cmdLast' = [Cmd("remove", sn, rs.err, <<Call("Remove", 0)>>,
                                             IF rs.deleted
                                             THEN <<Event("ServiceDeleted", sn)>>
                                             ELSE NoEvents)
                                         EXCEPT !.answer = confirm]
    /\ StoreFrame

NextStore ==
    \/ \E sn \in ServiceNames : rollbackCmdFunc(sn)
    \/ \E sn \in Deployable : editConfigCmdFunc(sn)
    \/ \E sn \in Deployable \cup {SystemService}, mode \in {"run", "stage", "commit"} :
          installCmdFunc(sn, mode)
    \/ \E sn \in ServiceNames, cmd \in {"start", "stop"} : startStopCmdFunc(sn, cmd)
    \/ \E sn \in ServiceNames : removeCmdFunc(sn)
    \/ \E sn \in ServiceNames, cmd \in {"enable", "disable"} :
          enableDisableCmdFunc(sn, cmd)

(***************************************************************************)
(* Container registry (registry.go, tempfork registry/manifest.go): the    *)
(* PUT of a manifest, as the inner handler runs it once ServeHTTP has let  *)
(* the request through.                                                    *)
(***************************************************************************)

\* Registry-triggered commits stop once latest_generation reaches MaxPushGen.
MaxPushGen == 2

\* Repo names as their path segments: app/web, web, lib/app/web.
Repos == {<<"app", "web">>, <<"web">>, <<"lib", "app", "web">>}
\* strings.Count(repo, "/")
slashCount(repo) == Len(repo) - 1
\* strings.Cut(repo, "/"): the service is what precedes the first slash.
svcOf(repo) == repo[1]

PutTags == {"latest", "run", "v1"}
Blobs == {"m1", "m2"}
\* storeManifest's file name: the hex sha256 of the blob.
Hash(b) == b
\* v1.SHA256's digest string, the reference a manifest is also stored under.
Digest(b) == IF b = "m1" THEN "sha256:m1" ELSE "sha256:m2"
RefNames == {"staged", "run", "latest", "v1", "sha256:m1", "sha256:m2"}
NoRef == ""
NoRepo == [exists |-> FALSE, refs |-> [r \in RefNames |-> NoRef]]

\* The fault present while a request is served: none, or the manifest file
\* cannot be written, or DB.Set fails, or NewFileInstaller fails, or the
\* install itself fails (compose read, copy, Close).
CallFailures == {"none", "store", "set", "new", "close"}

InitRegistry ==
    /\ images = [r \in Repos |-> NoRepo]
    /\ manifestFiles = {}
    /\ putLast = [repo |-> <<>>, tag |-> "", blob |-> "", fail |-> "none",
                  status |-> 0, installs |-> <<>>]

RegistryFrame == UNCHANGED <<authVars, busVars, disk, cmdLast, stepVars, sessVars>>

\* What the registry reads and writes during one request.
RegState == [images |-> images, files |-> manifestFiles, svcs |-> svcs,
             unit |-> unit, installs |-> <<>>]

\* SetManifests(repo, empty map), which the PUT handler calls when RepoExists
\* is false: the repo entry is created, whatever its name, unless DB.Set fails.
SetManifests(st, repo, fail) ==
    IF st.images[repo].exists \/ fail = "set" THEN st
    ELSE [st EXCEPT !.images[repo] = [NoRepo EXCEPT !.exists = TRUE]]

\* The install SetManifest triggers: NewFileInstaller with StageOnly, the
\* compose content copied in, Close.
FileInstall(st, sn, stageOnly, fail) ==
    IF fail = "new"
    THEN [st EXCEPT !.installs = Append(@, [svc |-> sn, stageOnly |-> stageOnly,
                                            result |-> "not_created"])]
    ELSE IF fail = "close"
    THEN [st EXCEPT !.installs = Append(@, [svc |-> sn, stageOnly |-> stageOnly,
                                            result |-> "failed"])]
    ELSE [st EXCEPT !.installs = Append(@, [svc |-> sn, stageOnly |-> stageOnly,
                                            result |-> "ok"]),
                    !.svcs[sn] = IF stageOnly THEN Stage(@) ELSE Promote(@),
                    !.unit[sn] = IF stageOnly THEN @ ELSE "running"]

\* references, were "latest" stored under its own name.
referencesKeepLatest(tag) ==
    IF tag = "run" THEN {"run", "staged"}
    ELSE {tag}

\* The references SetManifest stores a tag under.
references(tag) ==
    IF tag = "run" THEN {"run", "staged"}
    ELSE IF tag = "latest" THEN {"staged"}
    ELSE {tag}

\* containerRegistry.Manifest(repo, reference), the GET of a manifest: the
\* blob the reference points at, read from its file, or "not_found".
Manifest(imgs, files, repo, reference) ==
    IF ~imgs[repo].exists THEN "not_found"
    ELSE IF imgs[repo].refs[reference] = NoRef THEN "not_found"
    ELSE IF imgs[repo].refs[reference] \notin files THEN "not_found"
    ELSE CHOOSE b \in Blobs : Hash(b) = imgs[repo].refs[reference]

\* SetManifest, were the document written only after the install went well.
SetManifestAfterInstall(st, repo, tag, b, fail) ==
    IF slashCount(repo) # 1 THEN st
    ELSE IF fail = "store" THEN st
    ELSE LET stored == [st EXCEPT !.files = @ \cup {Hash(b)}]
             written == [stored EXCEPT !.images[repo] =
                            [exists |-> TRUE,
                             refs |-> [r \in RefNames |->
                                         IF r \in references(tag)
                                         THEN Hash(b) ELSE @.refs[r]]]]
         IN  IF fail = "set" THEN stored
             ELSE IF fail \in {"new", "close"}
             THEN FileInstall(stored, svcOf(repo), tag # "run", fail)
             ELSE FileInstall(written, svcOf(repo), tag # "run", fail)

\* containerRegistry.SetManifest(repo, tag, manifest with blob b).
SetManifest(st, repo, tag, b, fail) ==
    IF slashCount(repo) # 1 THEN st
    ELSE IF fail = "store" THEN st
    ELSE LET stored == [st EXCEPT !.files = @ \cup {Hash(b)}]
             written == [stored EXCEPT !.images[repo] =
                            [exists |-> TRUE,
                             refs |-> [r \in RefNames |->
                                         IF r \in references(tag)
                                         THEN Hash(b) ELSE @.refs[r]]]]
         IN  IF fail = "set" THEN stored
             ELSE FileInstall(written, svcOf(repo), tag # "run", fail)

\* containerRegistry.OnImageReceived
OnImageReceived(repo, tag) ==
    IF slashCount(repo) # 1 THEN "bad_repo"
    ELSE IF tag # "latest" /\ tag # "run" THEN "bad_tag"
    ELSE "ok"

\* manifests.handle, case PUT, for an index that names a sub-manifest the
\* registry does not hold: 404 MANIFEST_UNKNOWN before anything is written.
ManifestPutMissingSub ==
    /\ \E repo \in Repos, tag \in PutTags, b \in Blobs :
         putLast' = [repo |-> repo, tag |-> tag, blob |-> b, fail |-> "none",
                     status |-> 404, installs |-> <<>>]
    /\ UNCHANGED <<images, manifestFiles, svcs, unit>>
    /\ RegistryFrame

\* manifests.handle, case PUT, otherwise: the repo entry is made if there is
\* none, the manifest is set under its digest and under the target, and the
\* callback decides between 201 and 500.
ManifestPut ==
    /\ \E repo \in Repos, tag \in PutTags, b \in Blobs, fail \in CallFailures :
         /\ (slashCount(repo) = 1 /\ tag = "run") => svcs[svcOf(repo)].latest < MaxPushGen
         /\ LET s1 == SetManifests(RegState, repo, fail)
                s2 == SetManifest(s1, repo, Digest(b), b, fail)
                s3 == SetManifest(s2, repo, tag, b, fail)
            IN  /\ images' = s3.images
                /\ manifestFiles' = s3.files
                /\ svcs' = s3.svcs
                /\ unit' = s3.unit
                /\ putLast' = [repo |-> repo, tag |-> tag, blob |-> b, fail |-> fail,
                               status |-> IF OnImageReceived(repo, tag) = "ok"
                                          THEN 201 ELSE 500,
                               installs |-> s3.installs]
    /\ RegistryFrame

NextRegistry == ManifestPut \/ ManifestPutMissingSub

(***************************************************************************)
(* Concurrent requests, step by step (tty.go, catch.go, registry.go): two  *)
(* sessions and the registry's handler work on one service.  A step is one *)
(* call that reads or writes the store, the supervisor or the disk; the    *)
(* store's own operations (Get, Set, MutateService, MutateData) and the    *)
(* installer's run are single steps, as the design document gives them.    *)
(***************************************************************************)

\* Commits in one behaviour of the step-by-step specification.
MaxStepGen == 2

Sessions == {"s1", "s2"}
RegistryHandler == "reg"
Procs == Sessions \cup {RegistryHandler}
\* The service both sessions name and the repo pushed to.
StepService == "app"
StepRepo == <<"app", "web">>
StepBlob == "m1"

NoSnap == <<>>
\* A goroutine between requests.
Idle == [op |-> "idle", step |-> "", tag |-> "", phase |-> 0, snap |-> NoSnap,
         log |-> <<>>, responded |-> FALSE]

InitSteps == procs = [p \in Procs |-> Idle]

StepFrame == UNCHANGED <<authVars, busVars, cmdLast, putLast, sessVars>>

At(p, op, step) == procs[p].op = op /\ procs[p].step = step

\* run, in one step: the FileInstaller makes the directories and promotes a
\* new generation, and the runner starts the unit.
runStep(p) ==
    /\ p \in Sessions /\ procs[p].op = "idle"
    /\ svcs[StepService].latest < MaxStepGen
    /\ disk' = [disk EXCEPT ![StepService] = AllDirs]
    /\ svcs' = [svcs EXCEPT ![StepService] = Promote(@)]
    /\ unit' = [unit EXCEPT ![StepService] = "running"]
    /\ procs' = [procs EXCEPT ![p] = Idle]
    /\ UNCHANGED <<images, manifestFiles>>
    /\ StepFrame

\* start and stop, first step: serviceRunner() reads the service's type.
startStopBegin(p, cmd) ==
    /\ p \in Sessions /\ procs[p].op = "idle"
    /\ procs' = [procs EXCEPT ![p] =
                    IF ~serviceFound(StepService)
                    THEN Idle
                    ELSE [Idle EXCEPT !.op = cmd, !.step = "call"]]
    /\ UNCHANGED <<svcs, unit, disk, images, manifestFiles>>
    /\ StepFrame

\* start and stop, second step: runner.Start() or runner.Stop().
startStopCall(p) ==
    /\ procs[p].op \in {"start", "stop"} /\ procs[p].step = "call"
    /\ \E ok \in BOOLEAN :
         IF unit[StepService] = "absent" \/ ~ok
         THEN /\ procs' = [procs EXCEPT ![p] =
                              Idle]
              /\ UNCHANGED unit
         ELSE /\ unit' = [unit EXCEPT ![StepService] =
                             IF procs[p].op = "start" THEN "running" ELSE "stopped"]
              /\ procs' = [procs EXCEPT ![p] = Idle]
    /\ UNCHANGED <<svcs, disk, images, manifestFiles>>
    /\ StepFrame

\* rollback, first step: MutateService with the bound check.
rollbackBegin(p) ==
    /\ p \in Sessions /\ procs[p].op = "idle"
    /\ LET chk == rollbackCheck(svcs[StepService])
       IN  IF chk # "none"
           THEN /\ procs' = [procs EXCEPT ![p] = Idle]
                /\ UNCHANGED svcs
           ELSE /\ svcs' = [svcs EXCEPT ![StepService].gen = @ - 1]
                /\ procs' = [procs EXCEPT ![p] =
                                [Idle EXCEPT !.op = "rollback", !.step = "installgen",
                                             !.log = <<"MutateService">>]]
    /\ UNCHANGED <<unit, disk, images, manifestFiles>>
    /\ StepFrame

\* rollback, second step: NewInstaller and InstallGen reconcile the runner.
rollbackInstallGen(p) ==
    /\ At(p, "rollback", "installgen")
    /\ \E rc \in Reconciles :
         /\ unit' = IF rc = "ok" THEN [unit EXCEPT ![StepService] = "running"] ELSE unit
         /\ procs' = [procs EXCEPT ![p] =
                         Idle]
    /\ UNCHANGED <<svcs, disk, images, manifestFiles>>
    /\ StepFrame

\* The calls of remove, were the entry deleted before the directories.
removeStepsEntryFirst == <<"runner", "check", "entry", "dirs", "publish">>

\* The calls of a confirmed remove, in the order removeCmdFunc and
\* RemoveService make them.
removeSteps == <<"runner", "check", "dirs", "entry", "publish">>

\* remove, first step: serviceRunner(), then the operator's answer.
removeBegin(p) ==
    /\ p \in Sessions /\ procs[p].op = "idle"
    /\ \E confirm \in {"y", "n"} :
         procs' = [procs EXCEPT ![p] =
                      IF ~serviceFound(StepService)
                      THEN Idle
                      ELSE IF confirm = "n"
                      THEN Idle
                      ELSE [Idle EXCEPT !.op = "remove", !.phase = 1,
                                        !.step = removeSteps[1]]]
    /\ UNCHANGED <<svcs, unit, disk, images, manifestFiles>>
    /\ StepFrame

\* The goroutine after a call of remove went well: the next call, or the
\* handler returns nil after the last one.
removeAdvance(p, log) ==
    IF procs[p].phase = Len(removeSteps)
    THEN Idle
    ELSE [procs[p] EXCEPT !.phase = @ + 1, !.step = removeSteps[procs[p].phase + 1],
                      !.log = log]

\* remove, one call: runner.Remove(), RemoveService's running check, the
\* removal of every directory but data, MutateData's delete, PublishEvent.
removeStep(p) ==
    /\ procs[p].op = "remove"
    /\ LET sn == StepService
           step == procs[p].step
           log == procs[p].log
       IN  \E outcome \in RunnerOutcomes, statusOk \in BOOLEAN, dbOk \in BOOLEAN :
             IF step = "runner"
             THEN LET r == runnerRemove(unit[sn], outcome)
                  IN  /\ unit' = [unit EXCEPT ![sn] = r.unit]
                      /\ procs' = [procs EXCEPT ![p] =
                              IF r.err = "failed"
                              THEN Idle
                              ELSE removeAdvance(p, Append(log, "Remove"))]
                      /\ UNCHANGED <<svcs, disk>>
             ELSE IF step = "check"
             THEN /\ procs' = [procs EXCEPT ![p] =
                              IF statusOk /\ IsServiceRunning(sn)
                              THEN Idle
                              ELSE removeAdvance(p, log)]
                  /\ UNCHANGED <<svcs, unit, disk>>
             ELSE IF step = "dirs"
             THEN /\ disk' = [disk EXCEPT ![sn] = @ \cap {"data"}]
                  /\ procs' = [procs EXCEPT ![p] = removeAdvance(p, Append(log, "RemoveAll"))]
                  /\ UNCHANGED <<svcs, unit>>
             ELSE IF step = "entry"
             THEN IF ~dbOk
                  THEN /\ procs' = [procs EXCEPT ![p] = Idle]
                       /\ UNCHANGED <<svcs, unit, disk>>
                  ELSE /\ svcs' = [svcs EXCEPT ![sn] = NoService]
                       /\ procs' = [procs EXCEPT ![p] =
                                       removeAdvance(p, Append(log, "delete"))]
                       /\ UNCHANGED <<unit, disk>>
             ELSE /\ procs' = [procs EXCEPT ![p] =
                                  removeAdvance(p, Append(log, "ServiceDeleted"))]
                  /\ UNCHANGED <<svcs, unit, disk>>
    /\ UNCHANGED <<images, manifestFiles>>
    /\ StepFrame

\* The reference a SetManifest call of the PUT stores: the digest in the
\* first call, the target in the second.
putReference(phase, tag) == IF phase = 1 THEN Digest(StepBlob) ELSE tag

\* manifests.handle, PUT: RepoExists decides whether SetManifests comes first
\* (phase 0) or the first SetManifest (phase 1).
putBegin(tag) ==
    /\ procs[RegistryHandler].op = "idle"
    /\ tag = "run" => svcs[StepService].latest < MaxStepGen
    /\ procs' = [procs EXCEPT ![RegistryHandler] =
                    [Idle EXCEPT !.op = "put", !.step = "get", !.tag = tag,
                                 !.phase = IF images[StepRepo].exists THEN 1 ELSE 0]]
    /\ UNCHANGED <<svcs, unit, disk, images, manifestFiles>>
    /\ StepFrame

\* getDB() and AsStruct(): the handler's copy of the whole document.
regGet(p) ==
    /\ At(p, "put", "get")
    /\ procs' = [procs EXCEPT ![p].snap = [svcs |-> svcs, images |-> images],
                              ![p].step = "set"]
    /\ UNCHANGED <<svcs, unit, disk, images, manifestFiles>>
    /\ StepFrame

\* storeManifest and DB.Set(d): d is the copy with the repo entry made or the
\* references written, and replaces the whole document.
regSet(p) ==
    /\ At(p, "put", "set")
    /\ LET d == procs[p].snap
           ph == procs[p].phase
           ir == d.images[StepRepo]
           refs == references(putReference(ph, procs[p].tag))
       IN  /\ svcs' = d.svcs
           /\ images' = [d.images EXCEPT ![StepRepo] =
                  IF ph = 0
                  THEN [ir EXCEPT !.exists = TRUE]
                  ELSE [exists |-> TRUE,
                        refs |-> [r \in RefNames |->
                                    IF r \in refs THEN Hash(StepBlob) ELSE ir.refs[r]]]]
           /\ manifestFiles' = IF ph = 0 THEN manifestFiles
                               ELSE manifestFiles \cup {Hash(StepBlob)}
           /\ procs' = [procs EXCEPT ![p].snap = NoSnap,
                                     ![p].phase = IF ph = 0 THEN 1 ELSE ph,
                                     ![p].step = IF ph = 0 THEN "get" ELSE "install"]
    /\ UNCHANGED <<unit, disk>>
    /\ StepFrame

\* NewFileInstaller, the compose content, Close: the handler runs the install
\* itself, stage-only unless the reference is run.
regInstall(p) ==
    /\ At(p, "put", "install")
    /\ LET ref == putReference(procs[p].phase, procs[p].tag)
           st == FileInstall(RegState, StepService, ref # "run", "none")
       IN  /\ svcs' = st.svcs
           /\ unit' = st.unit
           /\ procs' = [procs EXCEPT ![p].log = Append(@, "install"),
                                     ![p].phase = IF @ = 1 THEN 2 ELSE @,
                                     ![p].step = IF procs[p].phase = 1
                                                 THEN "get" ELSE "respond"]
    /\ UNCHANGED <<disk, images, manifestFiles>>
    /\ StepFrame

\* OnImageReceived accepts latest and run: 201 Created is written.
regRespond(p) ==
    /\ At(p, "put", "respond")
    /\ procs' = [procs EXCEPT ![p] = Idle]
    /\ UNCHANGED <<svcs, unit, disk, images, manifestFiles>>
    /\ StepFrame

NextSteps ==
    \/ \E p \in Sessions : runStep(p)
    \/ \E p \in Sessions, cmd \in {"start", "stop"} : startStopBegin(p, cmd)
    \/ \E p \in Sessions : startStopCall(p)
    \/ \E p \in Sessions : rollbackBegin(p)
    \/ \E p \in Sessions : rollbackInstallGen(p)
    \/ \E p \in Sessions : removeBegin(p)
    \/ \E p \in Sessions : removeStep(p)
    \/ \E tag \in {"latest", "run"} : putBegin(tag)
    \/ regGet(RegistryHandler)
    \/ regSet(RegistryHandler)
    \/ regInstall(RegistryHandler)
    \/ regRespond(RegistryHandler)

(***************************************************************************)
(* The upload of an install payload (tty.go, ttyExecer.install): the       *)
(* command's goroutine copies the payload into the installer while a       *)
(* watchdog goroutine waits for the first byte.  The client, the timer and *)
(* the session context are the environment.                                *)
(***************************************************************************)

\* The payload has at most MaxBytes bytes.
MaxBytes == 2

\* main: where install() is; dog: where its watchdog goroutine is.
\* avail: bytes sent and not yet read; recv: bytes copied into the installer.
\* started, done: the two channels, TRUE once closed.  expired: time.After
\* has fired; stalled: the client had sent no byte when it fired; fired: the
\* watchdog has run its timeout case.
NoUpload ==
    [main |-> "idle", dog |-> "none", env |-> FALSE, closer |-> FALSE,
     avail |-> 0, sent |-> 0, recv |-> 0, eof |-> FALSE, cancelled |-> FALSE,
     expired |-> FALSE, stalled |-> FALSE, started |-> FALSE, done |-> FALSE,
     fired |-> FALSE, closed |-> FALSE, failed |-> FALSE, err |-> "none",
     result |-> "none"]

InitUpload == up = NoUpload

UploadFrame ==
    UNCHANGED <<authVars, busVars, storeVars, regVars, stepVars, ws, sftp, ssh, agg, lateVars>>

\* install() up to the first read.  cfg.EnvFile is env; closer says whether
\* e.rawCloser is non-nil (the SSH session or the WebSocket; nil for a run
\* command over plain HTTP).  No watchdog is started for an env file.
install(env, closer, newOk) ==
    /\ up.main = "idle"
    /\ up' = IF ~newOk
             THEN [up EXCEPT !.main = "returned", !.err = "installer_failed",
                             !.env = env, !.closer = closer]
             ELSE [up EXCEPT !.main = IF env THEN "rest" ELSE "first",
                             !.dog = IF env THEN "none" ELSE "select",
                             !.env = env, !.closer = closer]
    /\ UploadFrame

\* The client writes a byte of the payload.
clientSend ==
    /\ up.main \in {"first", "rest"}
    /\ ~up.eof /\ ~up.closed /\ ~up.cancelled
    /\ up.sent < MaxBytes
    /\ up' = [up EXCEPT !.avail = @ + 1, !.sent = @ + 1]
    /\ UploadFrame

\* The client ends the payload (closes its standard input).
clientEnd ==
    /\ up.main \in {"first", "rest"}
    /\ ~up.eof /\ ~up.closed /\ ~up.cancelled
    /\ up' = [up EXCEPT !.eof = TRUE]
    /\ UploadFrame

\* The session context is cancelled (the connection is gone).
ctxCancel ==
    /\ up.main \in {"first", "rest"}
    /\ ~up.cancelled
    /\ up' = [up EXCEPT !.cancelled = TRUE]
    /\ UploadFrame

\* time.After(time.Second) fires while the watchdog is in its first select.
timerExpires ==
    /\ up.dog = "select"
    /\ ~up.expired
    /\ up' = [up EXCEPT !.expired = TRUE, !.stalled = (up.sent = 0)]
    /\ UploadFrame

\* The watchdog's first select takes one of its ready cases.
watchdogSelect ==
    /\ up.dog = "select"
    /\ \/ /\ up.cancelled \/ up.done
          /\ up' = [up EXCEPT !.dog = "gone"]
       \/ /\ up.started
          /\ up' = [up EXCEPT !.dog = "progress"]
       \/ /\ up.expired
          /\ up' = [up EXCEPT !.dog = "fire"]
    /\ UploadFrame

\* The timeout case: the error line is printed and e.rawCloser, if there is
\* one, is closed.
watchdogFire ==
    /\ up.dog = "fire"
    /\ up' = [up EXCEPT !.dog = "gone", !.fired = TRUE, !.closed = up.closer]
    /\ UploadFrame

\* The progress loop ends with the context or with done.
watchdogProgress ==
    /\ up.dog = "progress"
    /\ up.cancelled \/ up.done
    /\ up' = [up EXCEPT !.dog = "gone"]
    /\ UploadFrame

\* What a read of the input can give: a byte, the end of the stream (io.EOF)
\* or an error.  Once the session is closed or its context cancelled the
\* transport decides between the three.
ReadOutcomes ==
    IF up.closed \/ up.cancelled
    THEN {"eof", "error"} \cup (IF up.avail > 0 THEN {"byte"} ELSE {})
    ELSE IF up.avail > 0 THEN {"byte"}
    ELSE IF up.eof THEN {"eof"}
    ELSE {}

\* io.CopyN(inst, in, 1): with the byte, started is closed; without it the
\* installer is marked failed and install returns the error.
readFirst ==
    /\ up.main = "first"
    /\ \E r \in ReadOutcomes :
         up' = IF r = "byte"
               THEN [up EXCEPT !.avail = @ - 1, !.recv = @ + 1,
                               !.started = TRUE, !.main = "rest"]
               ELSE [up EXCEPT !.failed = TRUE, !.err = "read_failed",
                               !.main = "closing"]
    /\ UploadFrame

\* io.Copy(inst, in): the end of the stream is no error, a read error marks
\* the installer failed.
readRest ==
    /\ up.main = "rest"
    /\ \E r \in ReadOutcomes :
         up' = IF r = "byte"
               THEN [up EXCEPT !.avail = @ - 1, !.recv = @ + 1]
               ELSE IF r = "eof"
               THEN [up EXCEPT !.main = "closing"]
               ELSE [up EXCEPT !.failed = TRUE, !.err = "copy_failed",
                               !.main = "closing"]
    /\ UploadFrame

\* The deferred calls: close(done), then inst.Close(), which promotes what was
\* received unless the installer is marked failed or the installation fails.
installClose ==
    /\ up.main = "closing"
    /\ \E ok \in BOOLEAN :
         up' = [up EXCEPT !.main = "returned", !.done = TRUE,
                          !.result = IF up.failed \/ ~ok THEN "aborted"
                                     ELSE "promoted"]
    /\ UploadFrame

NextUpload ==
    \/ \E env \in BOOLEAN, closer \in BOOLEAN, newOk \in BOOLEAN :
          install(env, closer, newOk)
    \/ clientSend
    \/ clientEnd
    \/ ctxCancel
    \/ timerExpires
    \/ watchdogSelect
    \/ watchdogFire
    \/ watchdogProgress
    \/ readFirst
    \/ readRest
    \/ installClose

(***************************************************************************)
(* A tty run-command over a WebSocket (handleRunCommand, websocketutil):   *)
(* the read pump handleReads, the goroutine that waits on DoneCh, the      *)
(* goroutine copying the session's input to the pty, and the writes of the *)
(* command's output.  The peer is the environment.                         *)
(***************************************************************************)

\* The peer sends at most MaxMsgs messages.
MaxMsgs == 2
\* The capacity of readCh (16 in the code).
ReadChCap == 1

\* sock: the connection as the peer left it; inq: messages sent and not yet
\* read by the pump; pump: "read" in conn.ReadMessage, "send" in the select
\* that hands a message to readCh, "done" once returned.  doneCh is TRUE once
\* DoneCh is closed, rwCtx once rw.ctx is cancelled, cmdCtx once the
\* command's context is cancelled.  closed is TRUE once Close has closed
\* readCh, panicked once a goroutine has sent on the closed channel.
InitWs ==
    ws = [sock |-> "open", inq |-> 0, sent |-> 0, pump |-> "read", readCh |-> 0,
          doneCh |-> FALSE, rwCtx |-> FALSE, cmdCtx |-> FALSE, fwd |-> "wait",
          cmd |-> "running", readFailed |-> FALSE, writeFailed |-> FALSE,
          closed |-> FALSE, panicked |-> FALSE]

WsFrame ==
    UNCHANGED <<authVars, busVars, storeVars, regVars, stepVars, up, sftp, ssh, agg, lateVars>>

peerSend ==
    /\ ws.sock = "open" /\ ws.sent < MaxMsgs
    /\ ws' = [ws EXCEPT !.inq = @ + 1, !.sent = @ + 1]
    /\ WsFrame

\* The peer closes the WebSocket (or the connection breaks).
peerClose ==
    /\ ws.sock = "open"
    /\ ws' = [ws EXCEPT !.sock = "closed"]
    /\ WsFrame

\* handleReads at conn.ReadMessage: a message is taken by the read handler
\* (a resize) or goes on to readCh; an error closes DoneCh once, and the
\* deferred rw.cancel() runs.
handleReads ==
    /\ ws.pump = "read"
    /\ \/ /\ ws.inq > 0
          /\ \E handled \in BOOLEAN :
               ws' = [ws EXCEPT !.inq = @ - 1,
                                !.pump = IF handled THEN "read" ELSE "send"]
       \/ /\ ws.inq = 0 /\ ws.sock = "closed"
          /\ ws' = [ws EXCEPT !.pump = "done", !.readFailed = TRUE,
                              !.doneCh = TRUE, !.rwCtx = TRUE]
    /\ WsFrame

\* handleReads at its select: rw.readCh <- data, or rw.ctx is done.  The
\* send case on a closed channel is ready and panics, whether the pump was
\* waiting for room or has only now reached the select.
handleReadsSend ==
    /\ ws.pump = "send"
    /\ \/ /\ ~ws.closed
          /\ ws.readCh < ReadChCap
          /\ ws' = [ws EXCEPT !.readCh = @ + 1, !.pump = "read"]
       \/ /\ ws.closed
          /\ ws' = [ws EXCEPT !.pump = "panic", !.panicked = TRUE]
       \/ /\ ws.rwCtx
          /\ ws' = [ws EXCEPT !.pump = "read"]
    /\ WsFrame

\* ConnReadWriter.Read, called by the goroutine that copies the session's
\* input to the pty: a message from readCh (io.EOF once rw.ctx is done).
Read ==
    /\ ws.cmd = "running"
    /\ ~ws.rwCtx
    /\ ws.readCh > 0
    /\ ws' = [ws EXCEPT !.readCh = @ - 1]
    /\ WsFrame

\* ConnReadWriter.Write of command output: refused once rw.ctx is done; a
\* failed conn.WriteMessage closes DoneCh once.  A write on a connection the
\* peer has left may still succeed.
Write ==
    /\ ws.cmd = "running"
    /\ ~ws.rwCtx
    /\ \E fails \in BOOLEAN :
         /\ fails => ws.sock = "closed"
         /\ ws' = IF fails
                  THEN [ws EXCEPT !.writeFailed = TRUE, !.doneCh = TRUE]
                  ELSE ws
    /\ WsFrame

\* The goroutine of handleRunCommand, were it to end without calling cancel().
cancelOnDoneForgotten ==
    /\ ws.fwd = "wait"
    /\ ws.doneCh
    /\ ws' = [ws EXCEPT !.fwd = "done"]
    /\ WsFrame

\* The goroutine of handleRunCommand: <-ws.DoneCh, then cancel().
cancelOnDone ==
    /\ ws.fwd = "wait"
    /\ ws.doneCh
    /\ ws' = [ws EXCEPT !.fwd = "done", !.cmdCtx = TRUE]
    /\ WsFrame

\* e.run() returns and the deferred cancel(), ws.Close() and wsConn.Close()
\* run: the command's context is cancelled (rw.ctx is its sibling and is
\* not), the connection is closed and Close closes readCh.
handleRunCommandReturn ==
    /\ ws.cmd = "running"
    /\ ws' = [ws EXCEPT !.cmd = "returned", !.cmdCtx = TRUE, !.sock = "closed",
                        !.closed = TRUE]
    /\ WsFrame

NextWs ==
    \/ peerSend
    \/ peerClose
    \/ handleReads
    \/ handleReadsSend
    \/ Read
    \/ Write
    \/ cancelOnDone
    \/ handleRunCommandReturn

(***************************************************************************)
(* The SFTP subsystem of a session (sftp.go: fileHandler) and the commands *)
(* that print the env file (tty.go).  A request is served as one step, the *)
(* installer it creates included.  The artifact store and the installer    *)
(* are outside these sources and follow the design document.               *)
(***************************************************************************)

\* The service of the SFTP session.
SftpService == "app"

\* A path is the sequence of its segments: "/" is <<>>.
SftpPaths ==
    {<<>>, <<"stage">>, <<"env">>, <<"stage", "env">>, <<"data", "f">>,
     <<"data", ".env">>, <<"data">>, <<"bin">>}
WritePaths == {<<>>, <<"stage">>, <<"env">>, <<"stage", "env">>, <<"data", "f">>}
\* File contents; NoFile is the empty path of a missing artifact.
Contents == {"E1", "E2"}
NoFile == ""

NoInstaller == [made |-> FALSE, env |-> FALSE, stageOnly |-> FALSE]
NoRequest == [op |-> "none", path |-> <<>>, err |-> "none", inst |-> NoInstaller,
              out |-> NoFile]

\* latestIs: the reference Artifacts.Latest reads, which these sources do not
\* tell.  staged, run: the env file the two references point at.
NoArtifacts(ref) ==
    [latestIs |-> ref, staged |-> NoFile, run |-> NoFile, data |-> NoFile,
     last |-> NoRequest]

InitSftp == \E ref \in {"staged", "run"} : sftp = NoArtifacts(ref)

SftpFrame ==
    UNCHANGED <<authVars, busVars, regVars, stepVars, up, ws, ssh, agg, cmdLast, lateVars>>

\* fileHandler.envFile, were the request's mode always kept.
envFileAsRequested(doInstall, found) ==
    [made |-> TRUE, env |-> TRUE, stageOnly |-> ~doInstall]

\* fileHandler.envFile: its argument install is cleared when the service is
\* not found.
envFile(doInstall, found) ==
    [made |-> TRUE, env |-> TRUE, stageOnly |-> ~(doInstall /\ found)]

\* fileHandler.binFile
binFile(doInstall) == [made |-> TRUE, env |-> FALSE, stageOnly |-> ~doInstall]

\* strings.HasPrefix(req.Filepath, "/data/")
underData(path) == Len(path) >= 2 /\ path[1] = "data"

\* fileHandler.resolvePath for a path other than /env and /stage/env: only
\* /data and what is below it resolves, /data/.env excepted.
resolveData(path) ==
    IF Len(path) = 0 \/ path[1] # "data" THEN "invalid_path"
    ELSE IF path = <<"data", ".env">> THEN "invalid_path"
    ELSE "none"

\* fileHandler.Filewrite, were / to stage and /stage to commit.
FilewriteSwapped(method, path, found, dbOk) ==
    IF method # "Put" THEN [err |-> "unsupported_method", inst |-> NoInstaller]
    ELSE IF underData(path) THEN [err |-> resolveData(path), inst |-> NoInstaller]
    ELSE IF path \in {<<>>, <<"stage">>}
    THEN [err |-> "none", inst |-> binFile(path = <<"stage">>)]
    ELSE IF path \in {<<"env">>, <<"stage", "env">>}
    THEN IF ~dbOk THEN [err |-> "db_failed", inst |-> NoInstaller]
         ELSE [err |-> "none", inst |-> envFile(path = <<"env">>, found)]
    ELSE [err |-> "unsupported_path", inst |-> NoInstaller]

\* fileHandler.Filewrite: the error and the installer it creates.  found and
\* dbOk are what serviceView gives (errServiceNotFound, another error).
Filewrite(method, path, found, dbOk) ==
    IF method # "Put" THEN [err |-> "unsupported_method", inst |-> NoInstaller]
    ELSE IF underData(path) THEN [err |-> resolveData(path), inst |-> NoInstaller]
    ELSE IF path \in {<<>>, <<"stage">>}
    THEN [err |-> "none", inst |-> binFile(path = <<>>)]
    ELSE IF path \in {<<"env">>, <<"stage", "env">>}
    THEN IF ~dbOk THEN [err |-> "db_failed", inst |-> NoInstaller]
         ELSE [err |-> "none", inst |-> envFile(path = <<"env">>, found)]
    ELSE [err |-> "unsupported_path", inst |-> NoInstaller]

\* Server.envFile: af.Latest(db.ArtifactEnvFile), whatever staged says.
ServerEnvFile(staged) == IF sftp.latestIs = "staged" THEN sftp.staged ELSE sftp.run

\* fileHandler.Fileread: the error and the file opened.
Fileread(method, path, found) ==
    IF method # "Get" THEN [err |-> "unsupported_method", out |-> NoFile]
    ELSE IF path \in {<<"env">>, <<"stage", "env">>}
    THEN IF ~found THEN [err |-> "not_found", out |-> NoFile]
         ELSE IF ServerEnvFile(path = <<"stage", "env">>) = NoFile
         THEN [err |-> "open_failed", out |-> NoFile]
         ELSE [err |-> "none", out |-> ServerEnvFile(path = <<"stage", "env">>)]
    ELSE IF resolveData(path) # "none" THEN [err |-> "invalid_path", out |-> NoFile]
    ELSE IF path # <<"data", "f">> \/ sftp.data = NoFile
    THEN [err |-> "open_failed", out |-> NoFile]
    ELSE [err |-> "none", out |-> sftp.data]

\* An SFTP write, through to the Close of the file: a file under /data is
\* written in place; an installer stages what it received and, unless
\* stage-only, promotes it to a new generation.
sftpPut(path, content) ==
    /\ \E dbOk \in BOOLEAN, ok \in BOOLEAN :
         LET w == Filewrite("Put", path, serviceFound(SftpService), dbOk)
             commit == w.inst.made /\ ok /\ ~w.inst.stageOnly
         IN  /\ commit => svcs[SftpService].latest < MaxStepGen
             /\ sftp' = [sftp EXCEPT
                   !.last = [op |-> "Put", path |-> path, err |-> w.err,
                             inst |-> w.inst, out |-> NoFile],
                   !.data = IF underData(path) /\ w.err = "none" THEN content ELSE @,
                   !.staged = IF w.inst.made /\ w.inst.env /\ ok THEN content ELSE @,
                   !.run = IF commit
                           THEN (IF w.inst.env THEN content ELSE sftp.staged)
                           ELSE @]
             /\ svcs' = IF ~(w.inst.made /\ ok) THEN svcs
                        ELSE [svcs EXCEPT ![SftpService] =
                                 IF w.inst.stageOnly THEN Stage(@) ELSE Promote(@)]
             /\ unit' = IF commit THEN [unit EXCEPT ![SftpService] = "running"] ELSE unit
             /\ disk' = IF w.inst.made \/ underData(path)
                        THEN [disk EXCEPT ![SftpService] = AllDirs] ELSE disk
    /\ SftpFrame

\* An SFTP read or another request of the read handler.
sftpGet(method, path) ==
    /\ LET r == Fileread(method, path, serviceFound(SftpService))
       IN  sftp' = [sftp EXCEPT !.last = [op |-> method, path |-> path, err |-> r.err,
                                          inst |-> NoInstaller, out |-> r.out]]
    /\ UNCHANGED <<svcs, unit, disk>>
    /\ SftpFrame

\* Server.printEnv
printEnv(staged) ==
    IF ServerEnvFile(staged) = NoFile
    THEN [err |-> "no_env_file", out |-> NoFile]
    ELSE [err |-> "none", out |-> ServerEnvFile(staged)]

\* The env command.
envCmdFunc ==
    /\ LET r == IF serviceFound(SftpService) THEN printEnv(FALSE)
                ELSE [err |-> "not_found", out |-> NoFile]
       IN  sftp' = [sftp EXCEPT !.last = [op |-> "env", path |-> <<>>, err |-> r.err,
                                          inst |-> NoInstaller, out |-> r.out]]
    /\ UNCHANGED <<svcs, unit, disk>>
    /\ SftpFrame

\* stage show --env: ensureDirs, then printEnv(staged = true).
stageShowEnv ==
    /\ LET r == printEnv(TRUE)
       IN  sftp' = [sftp EXCEPT !.last = [op |-> "stage-show-env", path |-> <<>>,
                                          err |-> r.err, inst |-> NoInstaller,
                                          out |-> r.out]]
    /\ disk' = [disk EXCEPT ![SftpService] = AllDirs]
    /\ UNCHANGED <<svcs, unit>>
    /\ SftpFrame

\* stage commit: an installer without payload promotes what is staged.
stageCommit ==
    /\ \E ok \in BOOLEAN :
         /\ ok => svcs[SftpService].latest < MaxStepGen
         /\ sftp' = [sftp EXCEPT
               !.last = [op |-> "stage-commit", path |-> <<>>,
                         err |-> IF ok THEN "none" ELSE "install_failed",
                         inst |-> [made |-> TRUE, env |-> FALSE, stageOnly |-> FALSE],
                         out |-> NoFile],
               !.run = IF ok THEN sftp.staged ELSE @]
         /\ svcs' = IF ok THEN [svcs EXCEPT ![SftpService] = Promote(@)] ELSE svcs
         /\ unit' = IF ok THEN [unit EXCEPT ![SftpService] = "running"] ELSE unit
    /\ disk' = [disk EXCEPT ![SftpService] = AllDirs]
    /\ SftpFrame

NextSftp ==
    \/ \E path \in SftpPaths, content \in Contents : sftpPut(path, content)
    \/ \E method \in {"Get", "List"}, path \in SftpPaths : sftpGet(method, path)
    \/ envCmdFunc
    \/ stageShowEnv
    \/ stageCommit

(***************************************************************************)
(* An SSH session (ssh.go: SSHHandler; catch.go: serviceAndUser; tty.go:   *)
(* run).  Strings are sequences of characters.                             *)
(***************************************************************************)

\* SSH user strings have at most MaxUserLen characters.
MaxUserLen == 4
Chars == {"a", "b", "@"}
Users == UNION {[1..n -> Chars] : n \in 0..MaxUserLen}

\* strings.Cut(s, "@"): the parts before and after the first "@".
Cut(str) ==
    IF \E i \in 1..Len(str) : str[i] = "@"
    THEN LET i == CHOOSE k \in 1..Len(str) :
                      str[k] = "@" /\ \A j \in 1..(k - 1) : str[j] # "@"
         IN  [before |-> SubSeq(str, 1, i - 1),
              after |-> SubSeq(str, i + 1, Len(str)), ok |-> TRUE]
    ELSE [before |-> str, after |-> <<>>, ok |-> FALSE]

\* Server.serviceAndUser, were the part before the "@" taken as the service.
serviceAndUserSwapped(u) ==
    IF u = <<>> THEN [service |-> <<>>, user |-> <<>>, err |-> "empty_user"]
    ELSE IF ~Cut(u).ok THEN [service |-> u, user |-> <<>>, err |-> "none"]
    ELSE IF \E i \in 1..Len(Cut(u).after) : Cut(u).after[i] = "@"
    THEN [service |-> <<>>, user |-> <<>>, err |-> "invalid_user"]
    ELSE [service |-> Cut(u).before, user |-> Cut(u).after, err |-> "none"]

\* Server.serviceAndUser
serviceAndUser(u) ==
    IF u = <<>> THEN [service |-> <<>>, user |-> <<>>, err |-> "empty_user"]
    ELSE IF ~Cut(u).ok THEN [service |-> u, user |-> <<>>, err |-> "none"]
    ELSE IF \E i \in 1..Len(Cut(u).after) : Cut(u).after[i] = "@"
    THEN [service |-> <<>>, user |-> <<>>, err |-> "invalid_user"]
    ELSE [service |-> Cut(u).after, user |-> Cut(u).before, err |-> "none"]

\* A session of user u before its handler runs.  exited says whether the
\* handler has called session.Exit, exit is the status it gave; printed says
\* whether "Error: <msg>" was written.
Session(u) ==
    [user |-> u, pc |-> "start", service |-> <<>>, usr |-> <<>>,
     err |-> "none", printed |-> FALSE, exited |-> FALSE, exit |-> 0]

InitSsh == \E u \in Users : ssh = Session(u)

SshFrame ==
    UNCHANGED <<authVars, busVars, storeVars, regVars, stepVars, up, ws, sftp, agg, lateVars>>

\* ttyExecer.run: the error it returns and whether it wrote "Error: <msg>".
\* With a pty, pty.Open and syscall.Dup come first; then the command runs.
run(isPty, ptyErr, execErr) ==
    IF isPty /\ ptyErr = "open" THEN [err |-> "pty_open", printed |-> TRUE]
    ELSE IF isPty /\ ptyErr = "dup" THEN [err |-> "pty_dup", printed |-> FALSE]
    ELSE IF execErr THEN [err |-> "command_failed", printed |-> TRUE]
    ELSE [err |-> "none", printed |-> FALSE]

\* Server.SSHHandler: a user that does not parse is reported and the handler
\* returns; otherwise the command runs and session.Exit gets 1 or 0.
SSHHandler ==
    /\ ssh.pc = "start"
    /\ \E isPty \in BOOLEAN, ptyErr \in {"none", "open", "dup"}, execErr \in BOOLEAN :
         LET su == serviceAndUser(ssh.user)
             r == run(isPty, ptyErr, execErr)
         IN  ssh' = IF su.err # "none"
                    THEN [ssh EXCEPT !.pc = "done", !.err = su.err, !.printed = TRUE]
                    ELSE [ssh EXCEPT !.pc = "done", !.service = su.service,
                                     !.usr = su.user, !.err = r.err,
                                     !.printed = r.printed, !.exited = TRUE,
                                     !.exit = IF r.err # "none" THEN 1 ELSE 0]
    /\ SshFrame

NextSsh == SSHHandler

(***************************************************************************)
(* The web client's status aggregator (web/lib/status.js).                 *)
(***************************************************************************)

\* A status has at most MaxComponents components.
MaxComponents == 3
ComponentStates == {"starting", "running", "stopping", "stopped", "unknown"}
Statuses == UNION {[1..n -> ComponentStates] : n \in 1..MaxComponents}

\* new Set(states)
uniqueStates(states) == {states[i] : i \in 1..Len(states)}

\* statusToState, were starting looked for before stopping.
statusToStateStartingFirst(states) ==
    IF "starting" \in uniqueStates(states) THEN "starting"
    ELSE IF "stopping" \in uniqueStates(states) THEN "stopping"
    ELSE IF Cardinality(uniqueStates(states)) = 1
    THEN (IF states[1] = "running" THEN "running"
          ELSE IF states[1] = "stopped" THEN "stopped"
          ELSE "unknown")
    ELSE "partial"

\* statusToState
statusToState(states) ==
    IF "stopping" \in uniqueStates(states) THEN "stopping"
    ELSE IF "starting" \in uniqueStates(states) THEN "starting"
    ELSE IF Cardinality(uniqueStates(states)) = 1
    THEN (IF states[1] = "running" THEN "running"
          ELSE IF states[1] = "stopped" THEN "stopped"
          ELSE "unknown")
    ELSE "partial"

Status(states) == [states |-> states, state |-> "", shown |-> FALSE]

InitAgg == \E states \in Statuses : agg = Status(states)

\* The client aggregates the status it received.
aggregate ==
    /\ ~agg.shown
    /\ agg' = [agg EXCEPT !.state = statusToState(agg.states), !.shown = TRUE]
    /\ UNCHANGED <<authVars, busVars, storeVars, regVars, stepVars, up, ws, sftp, ssh, lateVars>>

(***************************************************************************)
(* Start and Shutdown (catch.go).  Start puts three goroutines into the    *)
(* WaitGroup: the heartbeat and the two monitors.  The heartbeat publishes *)
(* through PublishEvent as the publisher Heartbeat of the event bus; the   *)
(* monitors are the daemon's own code outside these sources and are taken  *)
(* to return once the root context is done.                                *)
(***************************************************************************)

\* The publishing goroutine that is the heartbeat.
Heartbeat == 1

\* NewServer: Start has run, Shutdown has not been called.
InitShutdown ==
    srv = [cancelled |-> FALSE, hbExited |-> FALSE, monitors |-> TRUE,
           shutdown |-> "none"]

ShutdownFrame ==
    UNCHANGED <<authVars, storeVars, regVars, stepVars, up, ws, sftp, ssh, agg, cf, dk,
                made, rz>>

\* heartbeat: the select takes ticker.C and PublishEvent is called with the
\* event {Heartbeat, "sys"}.
heartbeatTick ==
    /\ ~srv.hbExited
    /\ pubs[Heartbeat].pc = "idle"
    /\ published < MaxEvents
    /\ pubs' = [pubs EXCEPT ![Heartbeat] =
                   [pc |-> "lock",
                    ev |-> [svc |-> "sys", seq |-> published + 1, pend |-> {}],
                    todo |-> {}, to |-> 0]]
    /\ published' = published + 1
    /\ UNCHANGED <<els, mu, lis, srv>>
    /\ ShutdownFrame

\* heartbeat: the select takes ctx.Done() and the goroutine returns.  The
\* select is reached only between two PublishEvent calls.
heartbeatDone ==
    /\ ~srv.hbExited
    /\ pubs[Heartbeat].pc = "idle"
    /\ srv.cancelled
    /\ srv' = [srv EXCEPT !.hbExited = TRUE]
    /\ UNCHANGED busVars
    /\ ShutdownFrame

\* monitorSystemd and monitorDocker return once the context is done.
monitorsExit ==
    /\ srv.monitors
    /\ srv.cancelled
    /\ srv' = [srv EXCEPT !.monitors = FALSE]
    /\ UNCHANGED busVars
    /\ ShutdownFrame

\* Shutdown: s.cancel(), then s.waitGroup.Wait() starts.
Shutdown ==
    /\ srv.shutdown = "none"
    /\ srv' = [srv EXCEPT !.cancelled = TRUE, !.shutdown = "waiting"]
    /\ UNCHANGED busVars
    /\ ShutdownFrame

\* s.waitGroup.Wait() returns when the three goroutines have returned.
ShutdownReturn ==
    /\ srv.shutdown = "waiting"
    /\ srv.hbExited
    /\ ~srv.monitors
    /\ srv' = [srv EXCEPT !.shutdown = "returned"]
    /\ UNCHANGED busVars
    /\ ShutdownFrame

\* The heartbeat inside PublishEvent.
heartbeatPublish ==
    \/ PublishLock(Heartbeat)
    \/ PublishNext(Heartbeat)
    \/ Deliver(Heartbeat)
    \/ PublishReturn(Heartbeat)

NextShutdown ==
    \/ heartbeatTick
    \/ heartbeatDone
    \/ monitorsExit
    \/ Shutdown
    \/ ShutdownReturn
    \/ heartbeatPublish
    \/ \E l \in Listeners : AddEventListener(l)
    \/ \E l \in Listeners : ListenerReady(l)
    \/ \E l \in Listeners : ListenerCancel(l)
    \/ \E l \in Listeners : RemoveEventListener(l)

(***************************************************************************)
(* The compose file of an image push (registry.go, SetManifest).  One      *)
(* service, its compose-file artifact per generation, and the installs a   *)
(* manifest PUT triggers.  Artifacts.Gen and the installer are the         *)
(* daemon's own code outside these sources and follow the design document: *)
(* a commit stores the content under the new generation, a stage-only run  *)
(* under the staged reference.                                             *)
(***************************************************************************)

\* Commits in one behaviour of the compose specification.
MaxComposeGen == 3

ComposeService == "app"
\* composeTemplate rendered for the service, and compose files operators wrote.
composeTemplate == "template"
ComposeFiles == {"A", "B"}

NoPut == [tag |-> "", cur |-> NoFile, had |-> FALSE, handed |-> <<>>]

InitCompose ==
    cf = [files |-> [g \in 1..MaxComposeGen |-> NoFile], staged |-> NoFile,
          put |-> NoPut]

ComposeFrame ==
    UNCHANGED <<authVars, busVars, regVars, stepVars, disk, cmdLast, unit,
                up, ws, sftp, ssh, agg, srv, dk, made, rz>>

\* svc.Artifacts.Gen(db.ArtifactDockerComposeFile, g): the content of the
\* file of generation g, NoFile when there is none.
Gen(c, g) == IF g \in 1..MaxComposeGen THEN c.files[g] ELSE NoFile

\* The installer's run with a compose file: staged, or committed as the next
\* generation.
ComposeInstall(st, content, stageOnly) ==
    IF stageOnly
    THEN [st EXCEPT !.svc = Stage(@), !.c.staged = content]
    ELSE [st EXCEPT !.svc = Promote(@), !.c.staged = content,
                    !.c.files[st.svc.latest + 1] = content]

\* SetManifest's choice of the compose content: the file of generation
\* svc.Generation - 1 when the service has a generation and that file exists,
\* the rendered template otherwise.
composeFile(st) ==
    IF st.svc.exists /\ st.svc.gen > 0 /\ Gen(st.c, st.svc.gen - 1) # NoFile
    THEN Gen(st.c, st.svc.gen - 1)
    ELSE composeTemplate

\* What SetManifest does past the refs: the content is chosen from the store
\* as read at its start and copied into a FileInstaller, which is closed.
SetManifestInstall(st, tag) ==
    [ComposeInstall(st, composeFile(st), tag # "run")
        EXCEPT !.c.put.handed = Append(@, composeFile(st))]

\* A session installs a compose file an operator wrote (run or stage).
runCompose ==
    /\ \E content \in ComposeFiles, stageOnly \in BOOLEAN :
         /\ svcs[ComposeService].latest < MaxComposeGen
         /\ LET st == ComposeInstall([svc |-> svcs[ComposeService], c |-> cf],
                                     content, stageOnly)
            IN  /\ svcs' = [svcs EXCEPT ![ComposeService] = st.svc]
                /\ cf' = [st.c EXCEPT !.put = NoPut]
    /\ ComposeFrame

\* rollback of the service, past its bound check.
rollbackCompose ==
    /\ rollbackCheck(svcs[ComposeService]) = "none"
    /\ svcs' = [svcs EXCEPT ![ComposeService].gen = @ - 1]
    /\ cf' = [cf EXCEPT !.put = NoPut]
    /\ ComposeFrame

\* manifests.handle, case PUT, with tag latest or run to a repo of the
\* service: SetManifest for the digest, then for the tag.
ManifestPutCompose ==
    /\ \E tag \in {"latest", "run"} :
         /\ svcs[ComposeService].latest < MaxComposeGen
         /\ LET s0 == [svc |-> svcs[ComposeService],
                       c |-> [cf EXCEPT !.put =
                                [tag |-> tag,
                                 cur |-> Gen(cf, svcs[ComposeService].gen),
                                 had |-> (cf.staged # NoFile \/
                                          \E g \in 1..MaxComposeGen : cf.files[g] # NoFile),
                                 handed |-> <<>>]]]
                s1 == SetManifestInstall(s0, "digest")
                s2 == SetManifestInstall(s1, tag)
            IN  /\ svcs' = [svcs EXCEPT ![ComposeService] = s2.svc]
                /\ cf' = s2.c
    /\ ComposeFrame

NextCompose == runCompose \/ rollbackCompose \/ ManifestPutCompose

(***************************************************************************)
(* The compose runner's Up (svc/docker.go) over the image repos the        *)
(* registry holds.  The runner is given db.Data.Images as it is.           *)
(***************************************************************************)

\* s.InternalRegistryAddr, the loopback address of the registry.
InternalRegistryAddr == "127.0.0.1"
InternalRegistryHost == "catchit.dev"
\* The manifest pushed.
PushBlob == "m1"

NoUp == [svc |-> "", cmds |-> <<>>, err |-> "none"]

InitDocker == dk = [pushed |-> {}, up |-> NoUp]

DockerFrame ==
    UNCHANGED <<authVars, busVars, stepVars, disk, cmdLast, up, ws, sftp, ssh, agg,
                srv, cf, made, rz>>

\* matchingRefs: the repos whose name up to the first slash is the service
\* and that hold the reference ref.
matchingRefs(refs, svcName, ref) ==
    {rn \in Repos : /\ Head(rn) = svcName
                    /\ refs[rn].exists
                    /\ refs[rn].refs[ref] # NoRef}

\* The reference Up looks for in the image repos.
UpRefs == "latest"

DockerCmd(op, a, b) == [op |-> op, a |-> a, b |-> b]
\* fmt.Sprintf("%s/%s:latest", host, ref)
ImageRef(host, rn) == <<host, rn, "latest">>

\* The three commands of one matching repo.
Retag(rn) ==
    << DockerCmd("pull", ImageRef(InternalRegistryAddr, rn), <<>>),
       DockerCmd("tag", ImageRef(InternalRegistryAddr, rn), ImageRef(InternalRegistryHost, rn)),
       DockerCmd("rmi", ImageRef(InternalRegistryAddr, rn), <<>>) >>

RECURSIVE RetagAll(_)
RetagAll(order) ==
    IF order = <<>> THEN <<>> ELSE Retag(Head(order)) \o RetagAll(Tail(order))

\* A manifest PUT without a fault in the store; a repo pushed with tag latest
\* or run is remembered.
pushImage ==
    /\ \E repo \in Repos, tag \in PutTags :
         /\ (slashCount(repo) = 1 /\ tag = "run") => svcs[svcOf(repo)].latest < MaxPushGen
         /\ LET s1 == SetManifests(RegState, repo, "none")
                s2 == SetManifest(s1, repo, Digest(PushBlob), PushBlob, "none")
                s3 == SetManifest(s2, repo, tag, PushBlob, "none")
            IN  /\ images' = s3.images
                /\ manifestFiles' = s3.files
                /\ svcs' = s3.svcs
                /\ unit' = s3.unit
                /\ putLast' = [repo |-> repo, tag |-> tag, blob |-> PushBlob,
                               fail |-> "none",
                               status |-> IF OnImageReceived(repo, tag) = "ok"
                                          THEN 201 ELSE 500,
                               installs |-> s3.installs]
                /\ dk' = [dk EXCEPT !.pushed =
                             IF OnImageReceived(repo, tag) = "ok" THEN @ \cup {repo} ELSE @]
    /\ DockerFrame

\* DockerComposeService.Up for a service of the store: pull, tag and rmi for
\* each matching repo, in the map's order, then compose up.  The command
\* number failAt fails (0: none); the first failure ends Up.
Up(sn) ==
    /\ svcs[sn].exists
    /\ LET m == matchingRefs(images, sn, UpRefs)
       IN  \E order \in [1..Cardinality(m) -> m], failAt \in 0..(3 * Cardinality(m) + 1) :
             /\ \A i, j \in DOMAIN order : order[i] = order[j] => i = j
             /\ LET pull == IF m # {} THEN "never" ELSE "always"
                    all == RetagAll(order) \o <<DockerCmd("up", "--pull", pull)>>
                IN  dk' = [dk EXCEPT !.up =
                             [svc |-> sn,
                              cmds |-> IF failAt = 0 THEN all ELSE SubSeq(all, 1, failAt),
                              err |-> IF failAt = 0 THEN "none"
                                      ELSE IF failAt <= 3 * Cardinality(m)
                                      THEN "failed to tag image"
                                      ELSE "failed to run docker command"]]
    /\ UNCHANGED <<regVars, svcs, unit>>
    /\ DockerFrame

NextDocker == pushImage \/ \E sn \in ServiceNames : Up(sn)

(***************************************************************************)
(* A session whose service is the reserved name (tty.go, sftp.go): the     *)
(* user string `sys` makes serviceAndUser return the service "sys", for    *)
(* the command handlers and for the SFTP handlers alike.                   *)
(***************************************************************************)

\* Commits in one behaviour of the reserved-name specification.
MaxSysGen == 3

InitReserved == made = {}

ReservedFrame ==
    UNCHANGED <<authVars, busVars, regVars, stepVars, up, ws, sftp, ssh, agg,
                srv, cf, dk, rz>>

\* run and stage of the session, which installCmdFunc refuses for "sys"
\* before an installer is made.
reservedInstallCmd(mode) ==
    /\ installCmdFunc(SystemService, mode)
    /\ UNCHANGED made

\* cron: the expression is parsed, then e.install makes a FileInstaller with
\* the timer and runs it; the service name is not looked at.
cronCmdFunc(sn) ==
    /\ \E cronOk \in BOOLEAN, ok \in BOOLEAN :
         IF ~cronOk
         THEN /\ cmdLast' = Cmd("cron", sn, "invalid_cron", NoCalls, NoEvents)
              /\ UNCHANGED <<svcs, unit, disk, made>>
         ELSE /\ made' = made \cup {sn}
              /\ disk' = [disk EXCEPT ![sn] = AllDirs]
              /\ IF ~ok
                 THEN /\ cmdLast' = Cmd("cron", sn, "install_failed", NoCalls, NoEvents)
                      /\ UNCHANGED <<svcs, unit>>
                 ELSE /\ svcs[sn].latest < MaxSysGen
                      /\ svcs' = [svcs EXCEPT ![sn] = Promote(@)]
                      /\ unit' = [unit EXCEPT ![sn] = "running"]
                      /\ cmdLast' = Cmd("cron", sn, "none",
                                        <<Call("Install", svcs[sn].latest + 1)>>,
                                        <<Event(IF svcs[sn].latest = 0 /\ ~svcs[sn].exists
                                                THEN "ServiceCreated"
                                                ELSE "ServiceConfigChanged", sn)>>)
    /\ ReservedFrame

\* An SFTP write of a session whose service is sn, through to the Close:
\* uploadFile runs ensureDirs for a path under /data/, binFile and envFile
\* make a FileInstaller for the service.
FilewriteFor(sn, path) ==
    /\ \E dbOk \in BOOLEAN, ok \in BOOLEAN :
         LET w == Filewrite("Put", path, serviceFound(sn), dbOk)
             commit == w.inst.made /\ ok /\ ~w.inst.stageOnly
         IN  /\ commit => svcs[sn].latest < MaxSysGen
             /\ made' = IF w.inst.made THEN made \cup {sn} ELSE made
             /\ svcs' = IF ~(w.inst.made /\ ok) THEN svcs
                        ELSE [svcs EXCEPT ![sn] =
                                 IF w.inst.stageOnly THEN Stage(@) ELSE Promote(@)]
             /\ unit' = IF commit THEN [unit EXCEPT ![sn] = "running"] ELSE unit
             /\ disk' = IF w.inst.made \/ underData(path)
                        THEN [disk EXCEPT ![sn] = AllDirs] ELSE disk
             /\ cmdLast' = Cmd("sftp-put", sn,
                               IF w.err # "none" THEN w.err
                               ELSE IF w.inst.made /\ ~ok THEN "install_failed"
                               ELSE "none",
                               IF commit THEN <<Call("Install", svcs[sn].latest + 1)>>
                               ELSE NoCalls,
                               NoEvents)
    /\ ReservedFrame

NextReserved ==
    \/ \E mode \in {"run", "stage", "commit"} : reservedInstallCmd(mode)
    \/ cronCmdFunc(SystemService)
    \/ \E path \in SftpPaths : FilewriteFor(SystemService, path)
    \/ rollbackCmdFunc(SystemService)
    \/ removeCmdFunc(SystemService)

(***************************************************************************)
(* The read handler of a tty run-command WebSocket (api.go,                *)
(* handleRunCommand; websocketutil.go, handleReads; tty.go, ResizeTTY).    *)
(* A message is a sequence of bytes; the handler is a pure function of the *)
(* message, of whether the pty is open yet, and of whether the buffer      *)
(* ReadMessage returned has room for four bytes.                           *)
(***************************************************************************)

\* Messages that need not start like a resize have at most MaxHeadLen bytes;
\* messages that start with 0x01 "[8;" have at most MaxTailLen bytes more.
MaxHeadLen == 4
MaxTailLen == 5

\* The byte 0x01.
SOH == "SOH"
HeadBytes == {SOH, "[", "8", ";", "2", "t"}
TailBytes == {"2", ";", "t", "x", "-"}
ResizePrefix == <<"[", "8", ";">>

SeqsUpTo(S, n) == UNION {[1..k -> S] : k \in 0..n}

WsMessages ==
    SeqsUpTo(HeadBytes, MaxHeadLen)
        \cup {<<SOH>> \o ResizePrefix \o t : t \in SeqsUpTo(TailBytes, MaxTailLen)}

\* The number of leading digits of s.
RECURSIVE DigitCount(_)
DigitCount(s) ==
    IF s = <<>> \/ Head(s) # "2" THEN 0 ELSE 1 + DigitCount(Tail(s))

\* The value of n digits 2.
RECURSIVE Num(_)
Num(n) == IF n = 0 THEN 0 ELSE 10 * Num(n - 1) + 2

\* The verb %d of Sscanf: an optional sign, then at least one digit.
ScanInt(s) ==
    LET neg == s # <<>> /\ Head(s) = "-"
        body == IF neg THEN Tail(s) ELSE s
        n == DigitCount(body)
    IN  [ok |-> n > 0,
         val |-> IF neg THEN 0 - Num(n) ELSE Num(n),
         rest |-> SubSeq(body, n + 1, Len(body))]

\* fmt.Sscanf(s, "[8;%d;%dt", &rows, &cols): input left over after the
\* format is used up is not an error.
Sscanf(s) ==
    IF Len(s) < 3 \/ SubSeq(s, 1, 3) # ResizePrefix
    THEN [err |-> TRUE, rows |-> 0, cols |-> 0]
    ELSE LET r == ScanInt(SubSeq(s, 4, Len(s)))
         IN  IF ~r.ok \/ r.rest = <<>> \/ Head(r.rest) # ";"
             THEN [err |-> TRUE, rows |-> 0, cols |-> 0]
             ELSE LET c == ScanInt(Tail(r.rest))
                  IN  IF ~c.ok \/ c.rest = <<>> \/ Head(c.rest) # "t"
                      THEN [err |-> TRUE, rows |-> 0, cols |-> 0]
                      ELSE [err |-> FALSE, rows |-> r.val, cols |-> c.val]

\* unix.Winsize's fields are uint16.
Uint16(n) == n % 65536

NoWinsize == [row |-> 0, col |-> 0]

\* ResizeTTY(cols, rows), then setWinsize(tty, cols, rows): nothing happens
\* while e.rw is not the pty yet.
ResizeTTY(cols, rows, ptyOpen) ==
    IF ptyOpen THEN [row |-> Uint16(rows), col |-> Uint16(cols)] ELSE NoWinsize

\* The read handler handleRunCommand sets: whether it took the message, the
\* window size it set, and whether it panicked.  For a message of two or
\* three bytes data[1:4] reaches past the message: it panics when the
\* buffer's capacity is below four (room = FALSE) and otherwise compares
\* with bytes that are not the message's.
readHandler(data, ptyOpen, room) ==
    IF Len(data) > 1 /\ data[1] = SOH
    THEN IF Len(data) < 4
         THEN [taken |-> FALSE, set |-> FALSE, win |-> NoWinsize, panic |-> ~room]
         ELSE IF SubSeq(data, 2, 4) = ResizePrefix
         THEN LET sc == Sscanf(Tail(data))
              IN  IF sc.err
                  THEN [taken |-> FALSE, set |-> FALSE, win |-> NoWinsize, panic |-> FALSE]
                  ELSE [taken |-> TRUE, set |-> ptyOpen,
                        win |-> ResizeTTY(sc.cols, sc.rows, ptyOpen), panic |-> FALSE]
         ELSE [taken |-> FALSE, set |-> FALSE, win |-> NoWinsize, panic |-> FALSE]
    ELSE [taken |-> FALSE, set |-> FALSE, win |-> NoWinsize, panic |-> FALSE]

\* A message the peer sent, not yet read by the pump.
Message(data, ptyOpen, room) ==
    [data |-> data, ptyOpen |-> ptyOpen, room |-> room, pc |-> "sent",
     set |-> FALSE, win |-> NoWinsize, forwarded |-> <<>>]

InitResize ==
    \E data \in WsMessages, ptyOpen \in BOOLEAN, room \in BOOLEAN :
        rz = Message(data, ptyOpen, room)

\* handleReads with one message: the read handler runs; a message it did not
\* take goes to readCh as it is.
handleReadsMessage ==
    /\ rz.pc = "sent"
    /\ LET h == readHandler(rz.data, rz.ptyOpen, rz.room)
       IN  rz' = [rz EXCEPT !.pc = IF h.panic THEN "panic"
                                   ELSE IF h.taken THEN "taken" ELSE "forwarded",
                            !.set = h.set,
                            !.win = h.win,
                            !.forwarded = IF h.panic \/ h.taken THEN <<>> ELSE <<rz.data>>]
    /\ UNCHANGED <<authVars, busVars, storeVars, regVars, stepVars, up, ws, sftp, ssh,
                   agg, srv, cf, dk, made>>

\* The state after construction, but for the SFTP and SSH sessions and the
\* web client.
InitServer ==
    /\ InitAuth /\ InitBus /\ InitStore /\ InitRegistry /\ InitSteps
    /\ InitUpload /\ InitWs /\ InitShutdown /\ InitCompose /\ InitDocker /\ InitReserved

\* The parts whose specifications draw their inputs, at a fixed input.
InitInputs ==
    /\ sftp = NoArtifacts("run") /\ ssh = Session(<<>>)
    /\ agg = Status(<<"unknown">>) /\ rz = Message(<<>>, FALSE, FALSE)

Init == InitServer /\ InitInputs

SpecUpload == Init /\ [][NextUpload]_vars

\* The SFTP handlers start from either answer of Artifacts.Latest.
SftpInit ==
    /\ InitServer /\ InitSftp /\ ssh = Session(<<>>) /\ agg = Status(<<"unknown">>)
    /\ rz = Message(<<>>, FALSE, FALSE)

SpecSftp == SftpInit /\ [][NextSftp]_vars

\* An SSH session starts with any user string of the bounded alphabet.
SshInit ==
    /\ InitServer /\ sftp = NoArtifacts("run") /\ InitSsh /\ agg = Status(<<"unknown">>)
    /\ rz = Message(<<>>, FALSE, FALSE)

SpecSsh == SshInit /\ [][NextSsh]_vars

\* The aggregator starts from any bounded list of component statuses.
StatusInit ==
    /\ InitServer /\ sftp = NoArtifacts("run") /\ ssh = Session(<<>>) /\ InitAgg
    /\ rz = Message(<<>>, FALSE, FALSE)

\* The read handler meets any bounded message.
ResizeInit ==
    /\ InitServer /\ sftp = NoArtifacts("run") /\ ssh = Session(<<>>)
    /\ agg = Status(<<"unknown">>) /\ InitResize

SpecResize == ResizeInit /\ [][handleReadsMessage]_vars

SpecStatus == StatusInit /\ [][aggregate]_vars

\* The pump, the input copier and the goroutine waiting on DoneCh are
\* goroutines of their own: each takes its step when it stays possible.
SpecWs ==
    /\ Init /\ [][NextWs]_vars
    /\ WF_vars(handleReads) /\ WF_vars(handleReadsSend)
    /\ WF_vars(Read) /\ WF_vars(cancelOnDone)

\* Every goroutine of the server is scheduled: the heartbeat, the monitors,
\* the Shutdown call, and a listener that writes an event out or removes
\* itself.  Whether a listener's context is cancelled is up to its client.
SpecShutdown ==
    /\ Init /\ [][NextShutdown]_vars
    /\ WF_vars(heartbeatTick \/ heartbeatDone) /\ WF_vars(heartbeatPublish)
    /\ WF_vars(monitorsExit) /\ WF_vars(ShutdownReturn)
    /\ WF_vars(\E l \in Listeners : ListenerReady(l))
    /\ WF_vars(\E l \in Listeners : RemoveEventListener(l))

SpecCompose == Init /\ [][NextCompose]_vars

SpecDocker == Init /\ [][NextDocker]_vars

SpecReserved == Init /\ [][NextReserved]_vars

SpecRegistry == Init /\ [][NextRegistry]_vars

SpecSteps == Init /\ [][NextSteps]_vars

Spec == Init /\ [][NextStore]_vars

SpecBus == Init /\ [][NextBus]_vars

SpecAuth == Init /\ [][NextAuth]_vars

(***************************************************************************)
(* Claims                                                                  *)
(***************************************************************************)

\* C1: PublishEvent never blocks the publisher: a publisher is never left at
\* its send el.ch <- event towards a listener that is not receiving (the event
\* would be dropped instead and the range would go on).
C1_PublisherNeverWaits ==
    \A p \in Publishers :
        pubs[p].pc = "send" => lis[pubs[p].to].pc = "recv"

\* C2: a remove the operator confirms for a service whose status is running
\* returns an error and changes nothing: no runner call, no directory deleted,
\* the entry stays in the store, no ServiceDeleted event.
C2_RemoveWhileRunningRefused ==
    [][\A sn \in ServiceNames :
          (/\ cmdLast'.cmd = "remove" /\ cmdLast'.sn = sn /\ cmdLast'.answer = "y"
           /\ unit[sn] = "running")
          => /\ cmdLast'.err # "none"
             /\ cmdLast'.calls = NoCalls
             /\ cmdLast'.events = NoEvents
             /\ UNCHANGED <<svcs, unit, disk>>]_vars

\* The errors of a rollback whose bound check passed: none, or the reconcile's.
RollbackApplied(err) == err \in {"none", "installer_failed", "install_failed"}

PutServed == putLast' # putLast /\ putLast'.status # 404

\* C4: a manifest PUT to a repo whose name has not exactly one slash leaves
\* state unchanged: no image-repo entry created or modified, no ref added, no
\* manifest file written, no install triggered.
C4_InvalidRepoPutChangesNothing ==
    [][(PutServed /\ slashCount(putLast'.repo) # 1) =>
          /\ images' = images
          /\ manifestFiles' = manifestFiles
          /\ svcs' = svcs
          /\ putLast'.installs = <<>>]_vars

\* The refs of the repo after the PUT are those before it, except that the
\* refs in written now hold the hash of the pushed manifest.
RefsWritten(written) ==
    images'[putLast'.repo].refs =
        [r \in RefNames |-> IF r \in written THEN Hash(putLast'.blob)
                            ELSE images[putLast'.repo].refs[r]]

\* A PUT to app/web has been served with tag latest or run and no fault.
PutOfDeployTag ==
    /\ PutServed
    /\ slashCount(putLast'.repo) = 1
    /\ putLast'.tag \in {"latest", "run"}
    /\ putLast'.fail \notin {"store", "set"}

C6_OneInstallPerPut ==
    [][(PutServed /\ slashCount(putLast'.repo) = 1 /\ putLast'.fail = "none") =>
          /\ Len(putLast'.installs) = 1
          /\ putLast'.installs[1].stageOnly = (putLast'.tag # "run")
          /\ putLast'.tag = "run" =>
                \A i \in 1..Len(putLast'.installs) : ~putLast'.installs[i].stageOnly]_vars

\* C10: every service in the store has 0 <= generation <= latest_generation.
C10_GenerationWithinLatest ==
    \A sn \in ServiceNames :
        svcs[sn].exists => (0 <= svcs[sn].gen /\ svcs[sn].gen <= svcs[sn].latest)

\* The last call ran verifyCaller and both of its lookups succeeded.
Identified ==
    /\ lastCall.via = "ssh" \/ (lastCall.via = "http" /\ lastCall.addr = "peer")
    /\ lastCall.lookups = <<FALSE, FALSE>>

\* C7: a non-loopback caller the Authorizer rejects gets 401 whatever the
\* method, a loopback caller gets 405 for every method but GET, HEAD and
\* OPTIONS, and in both cases the inner registry handler is not invoked.
C7_RegistryGate ==
    lastCall.via = "http" =>
        /\ (lastCall.addr = "peer" /\ lastCall.result # "ok")
              => (lastCall.status = 401 /\ ~lastCall.inner)
        /\ (lastCall.addr = "loopback" /\ lastCall.method \notin {"GET", "HEAD", "OPTIONS"})
              => (lastCall.status = 405 /\ ~lastCall.inner)

\* C7 witness: a rejected peer's GET was answered 401.
C7_Witness ==
    /\ lastCall.via = "http" /\ lastCall.addr = "peer"
    /\ lastCall.method = "GET" /\ lastCall.result = "unauthorized"
    /\ lastCall.status = 401

C9_TaggedLocal ==
    (Identified /\ IsTagged(lastCall.st)) =>
        /\ lastCall.result = "ok"
              <=> \/ (IsTagged(lastCall.who) /\ lastCall.who.tags \cap lastCall.st.tags # {})
                  \/ ~IsTagged(lastCall.who)
        /\ lastCall.result \in {"ok", "unauthorized"}

\* C9 witness: a tagged node rejected a tagged peer with no tag in common.
C9_Witness ==
    /\ Identified /\ IsTagged(lastCall.st) /\ IsTagged(lastCall.who)
    /\ lastCall.who.tags \cap lastCall.st.tags = {}
    /\ lastCall.result = "unauthorized"

\* C11: the latest_generation of a service never decreases while its entry
\* stays in the store, whatever command runs.
C11_LatestNeverDecreases ==
    [][\A sn \in ServiceNames :
          (svcs[sn].exists /\ svcs'[sn].exists)
          => svcs'[sn].latest >= svcs[sn].latest]_vars

\* Process p takes a step.
Steps(p) == procs'[p] # procs[p]

\* C12: every mutation of the store is an atomic read-modify-write: the
\* registry's write of a manifest leaves every service entry as the store
\* holds it at that moment, so that a rollback or install committed since the
\* handler read the document is not overwritten.
C12_NoLostUpdate ==
    [][\A p \in Procs :
          (At(p, "put", "set") /\ Steps(p)) => svcs' = svcs]_vars

\* A session is in the middle of a lifecycle operation on the service: it has
\* made a call that changed the store or the unit and has more to make.
MidOperation(q) == q \in Sessions /\ procs[q].op # "idle" /\ procs[q].log # <<>>
\* Process p makes a call of a lifecycle operation that changes the service:
\* a step of a session, or the install of the registry's handler.
LifecycleStep(p) ==
    /\ Steps(p)
    /\ p \in Sessions \/ At(p, "put", "install")
    /\ <<svcs, unit, disk>>' # <<svcs, unit, disk>>

\* C13: lifecycle operations on one service are totally ordered: no process
\* takes a step of one while another process is in the middle of one.
C13_OperationsDoNotInterleave ==
    [][\A p \in Procs : LifecycleStep(p) =>
          \A q \in Procs \ {p} : ~MidOperation(q)]_vars

\* C15: the install a PUT triggers is not on the handler's way to its
\* response: the handler is never at the install with the response unsent.
C15_ResponseDoesNotWaitForInstall ==
    \A p \in Procs : At(p, "put", "install") => procs[p].responded

\* C18: a removal makes its calls in the order runner.Remove, removal of the
\* directories, deletion of the entry, ServiceDeleted: the directories go only
\* after the runner was asked, the entry only after the directories, the
\* event only after the entry; data/ is never deleted.
C18_RemovalOrder ==
    [][\A p \in Sessions : (procs[p].op = "remove" /\ Steps(p)) =>
          LET log == procs[p].log
              step == procs[p].step
          IN  /\ disk'[StepService] # disk[StepService] => log = <<"Remove">>
              /\ svcs'[StepService] # svcs[StepService] => log = <<"Remove", "RemoveAll">>
              /\ step = "publish" => log = <<"Remove", "RemoveAll", "delete">>
              /\ "data" \in disk[StepService] => "data" \in disk'[StepService]]_vars

\* C18 witness: a removal has asked the runner, deleted the directories but
\* data/ and deleted the entry, and is at its PublishEvent.
C18_Witness ==
    \E p \in Sessions :
        /\ At(p, "remove", "publish")
        /\ procs[p].log = <<"Remove", "RemoveAll", "delete">>
        /\ disk[StepService] = {"data"}
        /\ ~svcs[StepService].exists
        /\ unit[StepService] = "absent"

\* C19: every artifact a service entry references exists on disk: a service
\* with an entry in the store has its artifact directories, also after
\* RemoveService has returned an error.
C19_ArtifactsOnDisk ==
    \A sn \in ServiceNames : svcs[sn].exists => ArtifactDirs \subseteq disk[sn]

\* C14: when the install a manifest PUT triggers fails (installer creation, or
\* the compose read, copy or Close), the refs written for the PUT stay in the
\* store and the GET of the manifest by each of them returns the pushed blob.
C14_RefsSurviveFailedInstall ==
    [][(/\ PutServed
        /\ slashCount(putLast'.repo) = 1
        /\ putLast'.fail \in {"new", "close"}) =>
          \A r \in references(putLast'.tag) \cup {Digest(putLast'.blob)} :
              Manifest(images', manifestFiles', putLast'.repo, r) = putLast'.blob]_vars

\* C14 witness: a PUT with tag run whose installs failed at Close, with run
\* and staged pointing at the pushed manifest.
C14_Witness ==
    /\ putLast.tag = "run" /\ putLast.fail = "close" /\ putLast.status = 201
    /\ slashCount(putLast.repo) = 1
    /\ Len(putLast.installs) = 2
    /\ \A i \in 1..2 : putLast.installs[i].result = "failed"
    /\ Manifest(images, manifestFiles, putLast.repo, "run") = putLast.blob
    /\ Manifest(images, manifestFiles, putLast.repo, "staged") = putLast.blob

\* How many times listener l has received event ev.
Received(l, ev) ==
    Cardinality({i \in 1..Len(lis[l].got) : lis[l].got[i] = ev})

C17_Original ==
    \A l \in Listeners : \A i, j \in 1..Len(lis[l].got) :
        (i < j /\ lis[l].got[i].svc = lis[l].got[j].svc)
        => lis[l].got[i].seq < lis[l].got[j].seq

\* C17 amended: the events for one service a listener has received are in the
\* order of their PublishEvent calls unless the calls overlapped (the later
\* call was made while the earlier was in progress), and any two listeners
\* hold the events they both received in the same order.
C17_SerializedOrder ==
    \A l \in Listeners : \A i, j \in 1..Len(lis[l].got) :
        (i < j /\ lis[l].got[i].svc = lis[l].got[j].svc)
        => /\ \/ lis[l].got[i].seq < lis[l].got[j].seq
              \/ lis[l].got[j].seq \in lis[l].got[i].pend
           /\ \A m \in Listeners : \A a, b \in 1..Len(lis[m].got) :
                 (lis[m].got[a] = lis[l].got[i] /\ lis[m].got[b] = lis[l].got[j])
                 => a < b

\* C17 witness: two calls for one service overlapped, the later one took the
\* mutex first, and two listeners hold both events in that order.
C17_Witness ==
    \E l, m \in Listeners :
        /\ l # m
        /\ Len(lis[l].got) = 2
        /\ lis[m].got = lis[l].got
        /\ lis[l].got[1].svc = lis[l].got[2].svc
        /\ lis[l].got[1].seq > lis[l].got[2].seq

\* The commands the reserved names are refused for: run and stage (with its
\* commit) on sys; start, stop, remove, enable and disable on sys or catch.
RefusedForReserved(c) ==
    \/ c.cmd \in {"run", "stage", "commit"} /\ c.sn = SystemService
    \/ /\ c.cmd \in {"start", "stop", "remove", "enable", "disable"}
       /\ c.sn \in {SystemService, CatchService}

\* C20: a command on a reserved service returns the reserved-name error
\* without a runner or installer call, without an event, and leaves the
\* store, the units and the directories as they were.
C20_ReservedRefused ==
    [][RefusedForReserved(cmdLast') =>
          /\ cmdLast'.err = "reserved"
          /\ cmdLast'.calls = NoCalls
          /\ cmdLast'.events = NoEvents
          /\ UNCHANGED <<svcs, unit, disk>>]_vars

\* C20 witness: with a service installed and running, a disable on catch has
\* been refused.
C20_Witness ==
    /\ cmdLast.cmd = "disable" /\ cmdLast.sn = CatchService
    /\ cmdLast.err = "reserved"
    /\ svcs["app"].exists /\ unit["app"] = "running"
    /\ disk["app"] = AllDirs

\* C21: when the one-second timer of a non-env install fired with no byte
\* received, the install promotes nothing, and the timeout the watchdog then
\* runs closes the session; an env-file install has no timer.
C21_StalledUploadAborted ==
    /\ up.stalled => up.result # "promoted"
    /\ up.fired => up.closed
    /\ up.env => (~up.expired /\ ~up.closed)

Installer(env, stageOnly) == [made |-> TRUE, env |-> env, stageOnly |-> stageOnly]

\* C23 as stated: / commits and /stage stages the main artifact, /env commits
\* and /stage/env stages the env file; any other path outside /data/ is
\* rejected without an installer.
C23_Original ==
    [][LET r == sftp'.last
       IN  (r.op = "Put" /\ ~underData(r.path)) =>
             /\ (r.path = <<>> /\ r.err = "none") => r.inst = Installer(FALSE, FALSE)
             /\ (r.path = <<"stage">> /\ r.err = "none") => r.inst = Installer(FALSE, TRUE)
             /\ (r.path = <<"env">> /\ r.err = "none") => r.inst = Installer(TRUE, FALSE)
             /\ (r.path = <<"stage", "env">> /\ r.err = "none")
                    => r.inst = Installer(TRUE, TRUE)
             /\ r.path \notin {<<>>, <<"stage">>, <<"env">>, <<"stage", "env">>}
                    => (r.err # "none" /\ ~r.inst.made)]_vars

\* C23 amended: as stated, except that /env commits the env file only when the
\* service has an entry in the Store and stages it otherwise.
C23_WriteRoutes ==
    [][LET r == sftp'.last
       IN  (r.op = "Put" /\ ~underData(r.path)) =>
             /\ (r.path = <<>> /\ r.err = "none") => r.inst = Installer(FALSE, FALSE)
             /\ (r.path = <<"stage">> /\ r.err = "none") => r.inst = Installer(FALSE, TRUE)
             /\ (r.path = <<"env">> /\ r.err = "none")
                    => r.inst = Installer(TRUE, ~serviceFound(SftpService))
             /\ (r.path = <<"stage", "env">> /\ r.err = "none")
                    => r.inst = Installer(TRUE, TRUE)
             /\ r.path \notin {<<>>, <<"stage">>, <<"env">>, <<"stage", "env">>}
                    => (r.err # "none" /\ ~r.inst.made)]_vars

\* C23 witness: after a commit through /, a write to /stage has created a
\* stage-only installer of the main artifact.
C23_Witness ==
    /\ sftp.last.op = "Put" /\ sftp.last.path = <<"stage">>
    /\ sftp.last.inst = Installer(FALSE, TRUE)
    /\ svcs[SftpService].latest > 0

\* C24: a write to /env creates its env-file installer stage-only exactly when
\* the service has no entry in the Store.
C24_EnvStagedForNewService ==
    [][LET r == sftp'.last
       IN  (r.op = "Put" /\ r.path = <<"env">> /\ r.inst.made) =>
             /\ r.inst.env
             /\ r.inst.stageOnly <=> ~serviceFound(SftpService)]_vars

\* C24 witness: the env file of a service never committed has been written
\* to /env and was staged, not promoted.
C24_Witness ==
    /\ sftp.last.op = "Put" /\ sftp.last.path = <<"env">>
    /\ sftp.last.inst = Installer(TRUE, TRUE)
    /\ sftp.staged # NoFile /\ sftp.run = NoFile
    /\ svcs[SftpService].latest = 0

\* C25: for an installed service, a Get of /, /stage, /env, /stage/env or of
\* an existing file under /data succeeds, and returns the committed env file,
\* the staged env file and the data file respectively.
C25_ReadsOfWritePaths ==
    [][LET r == sftp'.last
       IN  (/\ r.op = "Get" /\ r.path \in WritePaths
            /\ svcs[SftpService].exists /\ svcs[SftpService].latest > 0
            /\ sftp.run # NoFile /\ sftp.staged # NoFile /\ sftp.data # NoFile)
           => /\ r.err = "none"
              /\ r.path = <<"env">> => r.out = sftp.run
              /\ r.path = <<"stage", "env">> => r.out = sftp.staged
              /\ r.path = <<"data", "f">> => r.out = sftp.data]_vars

\* An env file is staged for the existing service and not yet committed.
EnvPending ==
    /\ svcs[SftpService].exists
    /\ sftp.run # NoFile /\ sftp.staged # sftp.run

\* C26: while a staged env file awaits its commit, env prints the previous
\* env file and the staged views (stage show --env, Get of /stage/env) show
\* the staged one; once committed, env prints it.
C26_StagedEnvViews ==
    [][LET r == sftp'.last
       IN  /\ (EnvPending /\ r.op = "env") => (r.err = "none" /\ r.out = sftp.run)
           /\ (EnvPending /\ (\/ r.op = "stage-show-env"
                              \/ r.op = "Get" /\ r.path = <<"stage", "env">>))
                  => (r.err = "none" /\ r.out = sftp.staged)
           /\ (r.op = "stage-commit" /\ r.err = "none") => sftp'.run = sftp.staged
           /\ (~EnvPending /\ sftp.run # NoFile /\ r.op = "env")
                  => (r.err = "none" /\ r.out = sftp.run)]_vars

\* C27: a session ends with a non-zero exit status and "Error: <msg>" written
\* if and only if parsing its user or running its command gave an error, and
\* with exit status 0 otherwise.
C27_ExitStatusTellsError ==
    ssh.pc = "done" =>
        /\ ssh.err # "none" <=> (ssh.exited /\ ssh.exit # 0 /\ ssh.printed)
        /\ ssh.err = "none" => (ssh.exited /\ ssh.exit = 0)

\* The service name an empty service stands for.
SysName == <<"s", "y", "s">>
AtCount(str) == Cardinality({i \in 1..Len(str) : str[i] = "@"})

\* C28: u@s gives service s and user u, a string without "@" is the service
\* with no user, and an empty service stands for sys.
C28_UserParsedAsUserAtService ==
    (ssh.pc = "done" /\ AtCount(ssh.user) <= 1) =>
        LET c == Cut(ssh.user)
            s == IF c.ok THEN c.after ELSE c.before
        IN  /\ ssh.err \notin {"empty_user", "invalid_user"}
            /\ ssh.usr = IF c.ok THEN c.before ELSE <<>>
            /\ ssh.service = IF s = <<>> THEN SysName ELSE s

\* C29: for a non-empty collection of component states the aggregator gives
\* stopping if any component is stopping, else starting if any is starting,
\* else the state all components share, else partial.
C29_StatusAggregation ==
    agg.shown =>
        agg.state =
            IF \E i \in 1..Len(agg.states) : agg.states[i] = "stopping" THEN "stopping"
            ELSE IF \E i \in 1..Len(agg.states) : agg.states[i] = "starting"
            THEN "starting"
            ELSE IF \A i \in 1..Len(agg.states) : agg.states[i] = agg.states[1]
            THEN agg.states[1]
            ELSE "partial"

\* C29 witness: a status with a starting and a stopping component has been
\* aggregated to stopping.
C29_Witness ==
    /\ agg.shown /\ agg.state = "stopping"
    /\ \E i \in 1..Len(agg.states) : agg.states[i] = "starting"

\* C30: PublishEvent and RemoveEventListener never wait for each other: no
\* listener that has stopped receiving waits in RemoveEventListener for the
\* mutex while its holder waits in PublishEvent to send to that listener
\* (from such a state neither call ever returns).
C30_NoCircularWait ==
    \A p \in Publishers, l \in Listeners :
        ~(/\ pubs[p].pc = "send" /\ pubs[p].to = l /\ mu = p
          /\ lis[l].pc = "removing")

\* C31: once Shutdown has cancelled the root context, Shutdown returns,
\* whatever the registered listeners are doing.
C31_ShutdownReturns == (srv.shutdown = "waiting") ~> (srv.shutdown = "returned")

\* C32: a manifest PUT answered with an error because OnImageReceived rejects
\* it (repo name without exactly one slash, or a tag other than latest and
\* run) leaves the image refs of every repo unchanged and triggers no install.
C32_RejectedPutWritesNothing ==
    [][(PutServed /\ OnImageReceived(putLast'.repo, putLast'.tag) # "ok") =>
          /\ putLast'.status = 500
          /\ \A repo \in Repos : images'[repo].refs = images[repo].refs
          /\ putLast'.installs = <<>>]_vars

\* C33: a successful rollback decreases the service's generation by exactly
\* one, leaves latest_generation, the rest of the entry and every other
\* service unchanged, and calls InstallGen once, with the decremented value.
C33_RollbackEffect ==
    [][(cmdLast'.cmd = "rollback" /\ cmdLast'.err = "none") =>
          LET sn == cmdLast'.sn
          IN  /\ svcs'[sn].gen = svcs[sn].gen - 1
              /\ svcs'[sn].latest = svcs[sn].latest
              /\ svcs'[sn].exists = svcs[sn].exists
              /\ \A o \in ServiceNames \ {sn} : svcs'[o] = svcs[o]
              /\ cmdLast'.calls = <<Call("InstallGen", svcs'[sn].gen)>>]_vars

\* C33 witness: a rollback has succeeded on a service two generations below
\* its latest one, and the installer was called for the selected generation.
C33_Witness ==
    /\ cmdLast.cmd = "rollback" /\ cmdLast.err = "none"
    /\ svcs[cmdLast.sn].exists
    /\ svcs[cmdLast.sn].gen >= 1
    /\ svcs[cmdLast.sn].gen = svcs[cmdLast.sn].latest - 2
    /\ cmdLast.calls = <<Call("InstallGen", svcs[cmdLast.sn].gen)>>

\* C34: when rollback returns an error, from the bound check or from the
\* reconcile (NewInstaller, InstallGen), the service's generation in the
\* store is what it was before the command.
C34_FailedRollbackKeepsGeneration ==
    [][(cmdLast'.cmd = "rollback" /\ cmdLast'.err # "none") =>
          svcs'[cmdLast'.sn].gen = svcs[cmdLast'.sn].gen]_vars

\* C35: when a manifest PUT triggers an install for a service whose current
\* generation has a compose file, the content handed to the installer is that
\* file's content; the template is handed over only when the service had no
\* compose artifact before the PUT.
C35_ComposeCarriedForward ==
    \A i \in DOMAIN cf.put.handed :
        /\ cf.put.cur # NoFile => cf.put.handed[i] = cf.put.cur
        /\ cf.put.handed[i] = composeTemplate => ~cf.put.had

\* The commands of the last Up hold pull, tag and rmi of repo rn, in that
\* order, before the compose up.
Retagged(rn) ==
    \E i \in DOMAIN dk.up.cmds :
        /\ i + 3 <= Len(dk.up.cmds)
        /\ SubSeq(dk.up.cmds, i, i + 2) = Retag(rn)
        /\ dk.up.cmds[Len(dk.up.cmds)].op = "up"

\* C36: for every repo <svc>/<container> pushed with tag latest or run, an Up
\* of <svc> that went well pulled the image from the loopback registry,
\* tagged it with the canonical host name and removed the loopback-tagged
\* copy, in that order, before compose up, and ran up with pull policy never.
C36_UpRetagsPushedImages ==
    (dk.up.svc # "" /\ dk.up.err = "none") =>
        \A rn \in dk.pushed :
            Head(rn) = dk.up.svc =>
                /\ Retagged(rn)
                /\ dk.up.cmds[Len(dk.up.cmds)] = DockerCmd("up", "--pull", "never")

\* C37: the reserved name sys never becomes a service: whatever the commands
\* and SFTP uploads of its sessions, no installer is made for it, no
\* directory skeleton is created for it and the store has no entry for it.
C37_SysNeverAService ==
    /\ SystemService \notin made
    /\ disk[SystemService] = {}
    /\ ~svcs[SystemService].exists

\* C38: ConnReadWriter.Close never leads to a send on the closed read
\* channel: no goroutine sends on readCh once Close has closed it.
C38_NoSendOnClosedReadCh == ~ws.panicked

\* A message that is the byte 0x01 followed by [8;<rows>;<cols>t and nothing
\* else, rows and cols being decimal numbers.
WellFormedResize(data) ==
    /\ Len(data) > 4
    /\ SubSeq(data, 1, 4) = <<SOH>> \o ResizePrefix
    /\ LET r == DigitCount(SubSeq(data, 5, Len(data)))
           c == DigitCount(SubSeq(data, r + 6, Len(data)))
       IN  /\ r > 0 /\ c > 0
           /\ Len(data) = r + c + 6
           /\ data[r + 5] = ";"
           /\ data[r + c + 6] = "t"

\* C39: once the pty is open, a message 0x01 [8;<rows>;<cols>t resizes the
\* pty to (rows, cols) and is not forwarded; every other message is forwarded
\* to the command's input unchanged, without a resize and without the
\* handler failing.  Stated for a read buffer with room for four bytes.
C39_ResizeOrForward ==
    (rz.pc # "sent" /\ rz.ptyOpen /\ rz.room) =>
        IF WellFormedResize(rz.data)
        THEN /\ rz.pc = "taken" /\ rz.set /\ rz.forwarded = <<>>
             /\ LET sc == Sscanf(Tail(rz.data))
                IN  rz.win = [row |-> sc.rows, col |-> sc.cols]
        ELSE /\ rz.pc = "forwarded" /\ ~rz.set
             /\ rz.forwarded = <<rz.data>>

====
